---------------------------- MODULE Spec2Model ----------------------------
(***************************************************************************)
(* Model of the construction_planner multi-agent backend.                  *)
(*                                                                         *)
(*   src/adk_core/agents/base_agent.py   ConstructionAgent: delivery       *)
(*       context, send_task_message / send_result_message, and the API     *)
(*       response bridge (response_queue, put/get with timeout).           *)
(*   src/adk_core/agents/*_agent.py      the on_message handlers.          *)
(*   src/adk_core/__init__.py            initialize_adk_system.            *)
(*   src/main.py                         lifespan, handle_client_inquiry.  *)
(*                                                                         *)
(* The Resolver, the AgentContext and the per-agent dispatch loop are      *)
(* imported from google.adk and are not part of src/; they are modelled    *)
(* from sections 4.3 and 4.4 of the specification (Deliver, LoopsBegin,    *)
(* LoopTake, LoopReturn, StopAllAgents, StopAllReturn).                    *)
(***************************************************************************)
EXTENDS Integers, Sequences, FiniteSets, TLC

(***************************************************************************)
(* Bounds of the model.                                                    *)
(***************************************************************************)
\* number of messages the environment (ADK runtime, external code calling
\* an agent's send helper) may create; messages sent by handlers are not
\* bounded
MaxInject == 2
\* number of on_message invocations explored, over all agents
MaxTurns == 4
\* the same two bounds where the endpoint's callers are part of the system
ApiInject == 1
ApiTurns == 2
\* number of concurrent callers of the /client_inquiry endpoint
MaxCallers == 2
\* the bridge timeout (120.0 s at main.py:145) counted in clock ticks
TimeoutTicks == 2
\* number of on_message invocations explored where the first inbox items
\* are drawn from all the inputs of a handler
HandlerTurns == 3

\* the most messages the loops hand to on_message in the workflow runs;
\* a workflow from one message takes at most 18 (10 REQUESTs, 8 RESULTs)
WorkflowTurns == 20

\* number of requests to the direct generation endpoints
GenRequests == 3

\* the two bounds of the agent system where startup may fail
LifespanInject == 1
LifespanTurns == 2

(***************************************************************************)
(* Agent ids (AgentRoles, the keys of adk_agents).                         *)
(***************************************************************************)
CLIENT_ENGAGEMENT == "client_engagement"
SITE_INTELLIGENCE == "site_intelligence"
ARCHITECTURAL_DESIGN == "architectural_design"
SYSTEMS_ENGINEERING == "systems_engineering"
EXPERIENTIAL_DESIGN == "experiential_design"
DIGITAL_TWIN == "digital_twin"
COST_SUPPLY_CHAIN == "cost_supply_chain"
PROJECT_MANAGEMENT == "project_management"
HUMAN_COLLABORATION == "human_collaboration"

\* the agents whose on_message only logs
LeafAgents ==
    {"risk_safety", "quality_assurance", "data_integration",
     "learning_adaptation", "sustainability_green", "financial_investment",
     "legal_contract", "workforce_hr", "post_construction_fm",
     "public_relations_comm"}

\* the id -> agent mapping built by initialize_adk_system
Registry ==
    {CLIENT_ENGAGEMENT, SITE_INTELLIGENCE, ARCHITECTURAL_DESIGN,
     SYSTEMS_ENGINEERING, EXPERIENTIAL_DESIGN, DIGITAL_TWIN,
     COST_SUPPLY_CHAIN, PROJECT_MANAGEMENT, HUMAN_COLLABORATION}
    \cup LeafAgents

\* an id that no agent is registered under
UNKNOWN_AGENT == "unregistered_agent"
\* the original_sender_id the endpoint passes (main.py:139)
FASTAPI_ENDPOINT == "fastapi_client_inquiry_endpoint"

(***************************************************************************)
(* Task names.                                                             *)
(***************************************************************************)
T_INTAKE == "Process new client inquiry and gather detailed requirements"
T_SITE == "Analyze site feasibility and regulatory compliance"
T_ARCH == "Generate initial architectural concepts based on feasibility"
T_SYS == "Develop structural and MEP preliminary designs"
T_EXP == "Develop interior and landscape designs"
T_TWIN == "Create initial 3D digital twin"
T_PLAN == "Start project planning and cost estimation"
T_COST == "Estimate project costs and develop procurement plan"
T_MASTER == "Incorporate cost and procurement data into master plan"
T_PRESENT == "Present master project plan to client for approval"
T_UNKNOWN == "some task no agent recognises"

\* a message type that is neither REQUEST nor RESULT
STRAY_TYPE == "EVENT"

NONE == "None"

Callers == 1..MaxCallers

VARIABLES
    app,             \* lifespan: "created", "running", "stopping", "stopped",
                     \* or "failed" when startup raised
    adk_resolver,    \* main.adk_resolver: NONE or "resolver"
    main_adk_agents, \* the mapping main.py's name adk_agents denotes (key set)
    registered,      \* the resolver's id -> agent mapping (agents by class)
    on_start_calls,  \* per agent: number of on_start invocations (history)
    loop,            \* per agent: state of its dispatch loop
    inbox,           \* per agent: queue of messages
    cur,             \* per agent: the message of its current/last on_message
    plan,            \* per agent: what is left of the running on_message
    context,         \* per agent: self.context, NONE or "ctx"
    response_queue,  \* per agent: self.response_queue (asyncio.Queue)
    puts,            \* per agent: responses put during the current/last turn
    sent,            \* per agent: messages sent during the current/last turn
    delivered,       \* per agent: ids enqueued on its inbox, in order (history)
    handled,         \* per agent: ids handed to on_message, in order (history)
    dropped,         \* messages the resolver dropped for an unknown receiver
    seq,             \* per creator: number of messages it has constructed
    injected,        \* number of messages created by the environment
    turns,           \* number of on_message invocations so far
    cpc,             \* per caller: "idle", "waiting", "done"
    cwaited,         \* per caller: ticks spent waiting for a response that
                     \* has not come (0 again once one is returned)
    cmsg,            \* per caller: id of the REQUEST it submitted, or NoId
    cresp,           \* per caller: the response get_response_from_api returned
    cout,            \* per caller: outcome of handle_client_inquiry
    gen              \* the request to a direct generation endpoint in
                     \* progress or answered last

vars == <<app, adk_resolver, main_adk_agents, registered, on_start_calls,
          loop, inbox, cur, plan, context, response_queue, puts, sent,
          delivered, handled, dropped, seq, injected, turns, cpc, cwaited,
          cmsg, cresp, cout, gen>>

agentVars == <<loop, inbox, cur, plan, context, response_queue, puts, sent,
               delivered, handled, dropped, seq, turns>>
callerVars == <<cpc, cwaited, cmsg, cresp, cout, gen>>
sysVars == <<app, adk_resolver, main_adk_agents, registered, on_start_calls>>

(***************************************************************************)
(* Messages (google.adk Message as base_agent.py constructs it).           *)
(* data abstracts the payload's data dict: "plain" has only hashable       *)
(* values, "nested" has a list or dict value (ClientRequest.dict() has the *)
(* list desired_features), "stage" is the dict a stage agent builds for    *)
(* the next stage.                                                         *)
(***************************************************************************)
Message(id, sender, receiver, type, task, data, osid, tid, status) ==
    [id |-> id, sender_id |-> sender, receiver_id |-> receiver, type |-> type,
     task |-> task, data |-> data, original_sender_id |-> osid,
     task_id |-> tid, status |-> status]

\* a message id: who constructed the message and its number among those
NoId == <<NONE, 0>>
ENV == "adk_runtime"
Creators == Registry \cup {ENV}
NewId(creator) == <<creator, seq[creator] + 1>>

NoMsg == Message(NoId, NONE, NONE, NONE, NONE, NONE, NONE, NONE, NONE)

NoResp == [status |-> NONE, agent |-> NONE, details |-> NONE, req |-> NoId]

\* no request to a direct generation endpoint has been made
NoGeneration ==
    [pc |-> "idle", endpoint |-> NONE, prompt |-> NONE,
     outcome |-> [kind |-> NONE, value |-> <<>>],
     returned |-> <<>>, status |-> NONE, body |-> <<>>, n |-> 0]

Ids(q) == [i \in 1..Len(q) |-> q[i].id]


(***************************************************************************)
(* The body of an on_message handler, as the steps it performs between     *)
(* its suspension points.  A plan is the rest of the handler: the steps    *)
(* still to run, whether they run inside a try block, and the steps of     *)
(* its except clause.                                                      *)
(*   llm_json  await llm_api_instance.generate_text, json.loads with the   *)
(*             JSONDecodeError fallback, then .get on the parsed value     *)
(*   await     asyncio.sleep or await llm_api_instance.generate_image      *)
(*   put       await self.put_response_for_api                             *)
(*   task      await self.send_task_message (its arguments are evaluated   *)
(*             first; chk names an argument expression that can raise)     *)
(*   result    await self.send_result_message                              *)
(***************************************************************************)
Step(op, to, task, tid, status, osid, chk) ==
    [op |-> op, to |-> to, task |-> task, tid |-> tid, status |-> status,
     osid |-> osid, chk |-> chk]

StepLlmJson == Step("llm_json", NONE, NONE, NONE, NONE, NONE, NONE)
StepAwait == Step("await", NONE, NONE, NONE, NONE, NONE, NONE)
StepPut(status) == Step("put", NONE, NONE, NONE, status, NONE, NONE)
StepTask(to, task, osid, chk) == Step("task", to, task, NONE, NONE, osid, chk)
StepResult(to, tid, status, chk) ==
    Step("result", to, NONE, tid, status, NONE, chk)

PlanOf(branch, try, body, exc) ==
    [branch |-> branch, try |-> try, body |-> body, exc |-> exc]

NoPlan == PlanOf(NONE, FALSE, <<>>, <<>>)

\* a test that does not look at the receiver
IsRequestOfAnyReceiver(a, m) == m.type = "REQUEST"

\* the test every handler starts with
IsRequestForMe(a, m) == m.type = "REQUEST" /\ m.receiver_id = a

\* an entry agent that forwards the intake before it acknowledges it
StrategicClientEngagementAgent_forward_first(m) ==
    IF IsRequestForMe(CLIENT_ENGAGEMENT, m) /\ m.task = T_INTAKE
    THEN PlanOf("intake", TRUE,
                <<StepLlmJson,
                  StepTask(SITE_INTELLIGENCE, T_SITE, m.sender_id, "hash"),
                  StepPut("processing_initiated")>>,
                <<StepPut("error")>>)
    ELSE PlanOf("unexpected", FALSE, <<>>, <<>>)

\* an entry agent whose intake branch has no try block
StrategicClientEngagementAgent_on_message_no_try(m) ==
    IF IsRequestForMe(CLIENT_ENGAGEMENT, m) /\ m.task = T_INTAKE
    THEN PlanOf("intake", FALSE,
                <<StepLlmJson,
                  StepPut("processing_initiated"),
                  StepTask(SITE_INTELLIGENCE, T_SITE, m.sender_id, "hash")>>,
                <<>>)
    ELSE PlanOf("unexpected", FALSE, <<>>, <<>>)

\* StrategicClientEngagementAgent.on_message.  original_sender_id is taken
\* from message.sender_id (line 40).  The elif for RESULT sits inside the
\* REQUEST branch, after the task test (line 110), so a RESULT message
\* reaches the final else.
StrategicClientEngagementAgent_on_message(m) ==
    IF IsRequestForMe(CLIENT_ENGAGEMENT, m)
    THEN IF m.task = T_INTAKE
         THEN PlanOf("intake", TRUE,
                     <<StepLlmJson,
                       StepPut("processing_initiated"),
                       StepTask(SITE_INTELLIGENCE, T_SITE, m.sender_id,
                                "hash")>>,
                     <<StepPut("error")>>)
         ELSE IF m.type = "RESULT"
              THEN PlanOf("result", FALSE, <<>>, <<>>)
              ELSE PlanOf("no_branch", FALSE, <<>>, <<>>)
    ELSE PlanOf("unexpected", FALSE, <<>>, <<>>)

\* the shape SiteIntelligence, ArchitecturalDesign and DigitalTwin share:
\* the recognised task runs in a try block that reports to the client
\* engagement agent and forwards to the next stage; the except clause
\* reports the failure.
TryStage_on_message(a, m, task, body, okTid, failTid, next, nextTask) ==
    IF IsRequestForMe(a, m)
    THEN IF m.task = task
         THEN PlanOf("task", TRUE,
                     body \o
                     <<StepResult(CLIENT_ENGAGEMENT, okTid, "ok", NONE),
                       StepTask(next, nextTask, m.original_sender_id, NONE)>>,
                     <<StepResult(CLIENT_ENGAGEMENT, failTid, "error", NONE)>>)
         ELSE PlanOf("unknown_task", FALSE, <<>>, <<>>)
    ELSE IF m.type = "RESULT"
         THEN PlanOf("result", FALSE, <<>>, <<>>)
         ELSE PlanOf("unexpected", FALSE, <<>>, <<>>)

SiteIntelligenceRegulatoryComplianceAgent_on_message(m) ==
    TryStage_on_message(SITE_INTELLIGENCE, m, T_SITE, <<StepLlmJson>>,
                        "site_analysis_complete", "site_analysis_failed",
                        ARCHITECTURAL_DESIGN, T_ARCH)

GenerativeArchitecturalDesignAgent_on_message(m) ==
    TryStage_on_message(ARCHITECTURAL_DESIGN, m, T_ARCH,
                        <<StepLlmJson, StepAwait>>,
                        "architectural_concepts_generated",
                        "architectural_design_failed",
                        SYSTEMS_ENGINEERING, T_SYS)

HyperRealistic3DDigitalTwinAgent_on_message(m) ==
    TryStage_on_message(DIGITAL_TWIN, m, T_TWIN, <<StepAwait, StepAwait>>,
                        "digital_twin_complete", "digital_twin_failed",
                        PROJECT_MANAGEMENT, T_PLAN)

\* a stage that passes on the sender of the REQUEST as its origin
PlainStage_on_message_sender_as_origin(a, m, task, okTid, next, nextTask) ==
    IF IsRequestForMe(a, m) /\ m.task = task
    THEN PlanOf("task", FALSE,
                <<StepAwait,
                  StepResult(CLIENT_ENGAGEMENT, okTid, "ok", NONE),
                  StepTask(next, nextTask, m.sender_id, NONE)>>,
                <<>>)
    ELSE PlanOf("unexpected", FALSE, <<>>, <<>>)

\* the shape SystemsEngineering, ExperientialDesign and CostSupplyChain
\* share: simulated work, a report, a forward; no try block.
PlainStage_on_message(a, m, task, okTid, next, nextTask) ==
    IF IsRequestForMe(a, m)
    THEN IF m.task = task
         THEN PlanOf("task", FALSE,
                     <<StepAwait,
                       StepResult(CLIENT_ENGAGEMENT, okTid, "ok", NONE),
                       StepTask(next, nextTask, m.original_sender_id, NONE)>>,
                     <<>>)
         ELSE PlanOf("unknown_task", FALSE, <<>>, <<>>)
    ELSE IF m.type = "RESULT"
         THEN PlanOf("result", FALSE, <<>>, <<>>)
         ELSE PlanOf("unexpected", FALSE, <<>>, <<>>)

IntegratedSystemsEngineeringAgent_on_message(m) ==
    PlainStage_on_message(SYSTEMS_ENGINEERING, m, T_SYS,
                          "systems_engineering_complete",
                          EXPERIENTIAL_DESIGN, T_EXP)

InteriorExperientialDesignAgent_on_message(m) ==
    PlainStage_on_message(EXPERIENTIAL_DESIGN, m, T_EXP,
                          "experiential_design_complete",
                          DIGITAL_TWIN, T_TWIN)

PredictiveCostSupplyChainAgent_on_message(m) ==
    PlainStage_on_message(COST_SUPPLY_CHAIN, m, T_COST,
                          "cost_estimation_complete",
                          PROJECT_MANAGEMENT, T_MASTER)

\* a project management agent that asks for the cost estimate and, in the
\* same turn, for the presentation
AdaptiveProjectManagement_on_message_fan_out(m) ==
    IF IsRequestForMe(PROJECT_MANAGEMENT, m) /\ m.task \in {T_PLAN, T_MASTER}
    THEN PlanOf("task", FALSE,
                <<StepAwait,
                  StepTask(COST_SUPPLY_CHAIN, T_COST,
                           m.original_sender_id, NONE),
                  StepTask(HUMAN_COLLABORATION, T_PRESENT,
                           m.original_sender_id, NONE)>>,
                <<>>)
    ELSE PlanOf("unexpected", FALSE, <<>>, <<>>)

\* AdaptiveProjectManagementRoboticsOrchestrationAgent.on_message: two
\* recognised tasks.  The report of the second formats the budget with
\* "{:,}" (line 81), which raises when the data carries no cost estimate.
AdaptiveProjectManagementRoboticsOrchestrationAgent_on_message(m) ==
    IF IsRequestForMe(PROJECT_MANAGEMENT, m)
    THEN IF m.task = T_PLAN
         THEN PlanOf("task", FALSE,
                     <<StepAwait,
                       StepTask(COST_SUPPLY_CHAIN, T_COST,
                                m.original_sender_id, NONE)>>,
                     <<>>)
         ELSE IF m.task = T_MASTER
              THEN PlanOf("task2", FALSE,
                          <<StepResult(CLIENT_ENGAGEMENT,
                                       "master_plan_drafted", "ok", "budget"),
                            StepTask(HUMAN_COLLABORATION, T_PRESENT,
                                     m.original_sender_id, NONE)>>,
                          <<>>)
              ELSE PlanOf("unknown_task", FALSE, <<>>, <<>>)
    ELSE IF m.type = "RESULT"
         THEN PlanOf("result", FALSE, <<>>, <<>>)
         ELSE PlanOf("unexpected", FALSE, <<>>, <<>>)

HumanAICollaborationExplainabilityAgent_on_message(m) ==
    IF IsRequestForMe(HUMAN_COLLABORATION, m)
    THEN IF m.task = T_PRESENT
         THEN PlanOf("task", FALSE,
                     <<StepAwait,
                       StepResult(CLIENT_ENGAGEMENT,
                                  "master_plan_presented_for_approval",
                                  "ok", NONE)>>,
                     <<>>)
         ELSE PlanOf("unknown_task", FALSE, <<>>, <<>>)
    ELSE IF m.type = "RESULT"
         THEN PlanOf("result", FALSE, <<>>, <<>>)
         ELSE PlanOf("unexpected", FALSE, <<>>, <<>>)

\* a placeholder agent that answers every REQUEST it is sent
LeafAgent_on_message_echo(a, m) ==
    IF IsRequestForMe(a, m)
    THEN PlanOf("placeholder", FALSE,
                <<StepResult(CLIENT_ENGAGEMENT, "echo", "ok", NONE)>>, <<>>)
    ELSE PlanOf("unexpected", FALSE, <<>>, <<>>)

\* the ten agents whose on_message sets the context and logs
LeafAgent_on_message(a, m) ==
    IF IsRequestForMe(a, m)
    THEN PlanOf("placeholder", FALSE, <<>>, <<>>)
    ELSE IF m.type = "RESULT"
         THEN PlanOf("result", FALSE, <<>>, <<>>)
         ELSE PlanOf("unexpected", FALSE, <<>>, <<>>)

\* dynamic dispatch of agent.on_message(message, context)
on_message(a, m) ==
    CASE a = CLIENT_ENGAGEMENT -> StrategicClientEngagementAgent_on_message(m)
      [] a = SITE_INTELLIGENCE ->
            SiteIntelligenceRegulatoryComplianceAgent_on_message(m)
      [] a = ARCHITECTURAL_DESIGN ->
            GenerativeArchitecturalDesignAgent_on_message(m)
      [] a = SYSTEMS_ENGINEERING -> IntegratedSystemsEngineeringAgent_on_message(m)
      [] a = EXPERIENTIAL_DESIGN -> InteriorExperientialDesignAgent_on_message(m)
      [] a = DIGITAL_TWIN -> HyperRealistic3DDigitalTwinAgent_on_message(m)
      [] a = COST_SUPPLY_CHAIN -> PredictiveCostSupplyChainAgent_on_message(m)
      [] a = PROJECT_MANAGEMENT ->
            AdaptiveProjectManagementRoboticsOrchestrationAgent_on_message(m)
      [] a = HUMAN_COLLABORATION ->
            HumanAICollaborationExplainabilityAgent_on_message(m)
      [] OTHER -> LeafAgent_on_message(a, m)

(***************************************************************************)
(* ConstructionAgent helpers (base_agent.py).  A send helper yields the    *)
(* messages it hands to self.context.send_message: none when the agent has *)
(* no delivery context yet, otherwise the one message it constructs.       *)
(***************************************************************************)
\* "if original_sender_id:" and "if task_id:" (lines 52 and 67): the key is
\* put into the payload only for a value that is neither None nor empty
Truthy(v) == v \notin {NONE, ""}

\* a helper that sends without a delivery context
send_task_message_unguarded(ctx, id, a, receiver_id, task, data, osid) ==
    <<Message(id, a, receiver_id, "REQUEST", task, data,
              IF Truthy(osid) THEN osid ELSE NONE, NONE, NONE)>>

\* a helper that does not pass original_sender_id on
send_task_message_no_origin(ctx, id, a, receiver_id, task, data, osid) ==
    IF ctx = NONE
    THEN <<>>
    ELSE <<Message(id, a, receiver_id, "REQUEST", task, data, NONE, NONE, NONE)>>

\* a helper that builds the REQUEST and never hands it to the context
send_task_message_unsent(ctx, id, a, receiver_id, task, data, osid) == <<>>

send_task_message(ctx, id, a, receiver_id, task, data, osid) ==
    IF ctx = NONE
    THEN <<>>
    ELSE <<Message(id, a, receiver_id, "REQUEST", task, data,
                   IF Truthy(osid) THEN osid ELSE NONE, NONE, NONE)>>

\* a helper that hands its message to the context twice
send_result_message_twice(ctx, id, a, receiver_id, status, tid) ==
    IF ctx = NONE
    THEN <<>>
    ELSE <<Message(id, a, receiver_id, "RESULT", NONE, NONE, NONE, tid, status),
           Message(id, a, receiver_id, "RESULT", NONE, NONE, NONE, tid, status)>>

send_result_message(ctx, id, a, receiver_id, status, tid) ==
    IF ctx = NONE
    THEN <<>>
    ELSE <<Message(id, a, receiver_id, "RESULT", NONE, NONE, NONE,
                   IF Truthy(tid) THEN tid ELSE NONE, status)>>

\* a bridge that keeps only the latest response
put_response_single_slot(q, response) == <<response>>

\* put_response_for_api: response_queue.put on an unbounded asyncio.Queue
put_response_for_api(q, response) == Append(q, response)

\* the dict the except asyncio.TimeoutError clause of get_response_from_api
\* returns
TimeoutResponse(a) ==
    [status |-> "timeout", agent |-> a, details |-> "str", req |-> NoId]

\* the dicts the client engagement agent builds (lines 79-86 and 103-107);
\* details is a string in both.  req is the id of the message being
\* handled, kept for tracing a response to its inquiry.
ApiResponse(a, status, m) ==
    [status |-> status, agent |-> a, details |-> "str", req |-> m.id]

(***************************************************************************)
(* Resolver delivery (specification 4.3): an unknown receiver is logged    *)
(* and dropped, a known one gets the message at the tail of its inbox.     *)
(***************************************************************************)
\* a resolver that puts the message at the front of the inbox
DeliverAtFront(inb, m) ==
    IF m.receiver_id \in Registry
    THEN [inb EXCEPT ![m.receiver_id] = <<m>> \o @]
    ELSE inb

\* a delivery that overwrites what waits in the receiver's inbox
DeliverReplacing(inb, m) ==
    IF m.receiver_id \in Registry
    THEN [inb EXCEPT ![m.receiver_id] = <<m>>]
    ELSE inb

\* a resolver that hands a message for an unknown id to the root agent
DeliverOrFallback(inb, m) ==
    IF m.receiver_id \in Registry
    THEN [inb EXCEPT ![m.receiver_id] = Append(@, m)]
    ELSE [inb EXCEPT ![CLIENT_ENGAGEMENT] = Append(@, m)]

Deliver(inb, m) ==
    IF m.receiver_id \in Registry
    THEN [inb EXCEPT ![m.receiver_id] = Append(@, m)]
    ELSE inb

\* the inbox item the dispatch loop hands to on_message next
NextItem(q) == Head(q)
RestItems(q) == Tail(q)

RECURSIVE DeliverAll(_, _)
DeliverAll(inb, msgs) ==
    IF msgs = <<>> THEN inb
    ELSE DeliverAll(Deliver(inb, Head(msgs)), Tail(msgs))

\* history of what was addressed to each registered receiver
Record(dl, msgs) ==
    [r \in Registry |->
        dl[r] \o Ids(SelectSeq(msgs, LAMBDA m : m.receiver_id = r))]

\* hand msgs to context.send_message, one after the other
\* creator is the agent (or the runtime) that constructed them
Emit(creator, msgs) ==
    /\ inbox' = DeliverAll(inbox, msgs)
    /\ delivered' = Record(delivered, msgs)
    /\ dropped' = dropped \cup
                  {msgs[i] : i \in {j \in 1..Len(msgs) :
                                      msgs[j].receiver_id \notin Registry}}
    /\ seq' = IF msgs = <<>> THEN seq ELSE [seq EXCEPT ![creator] = @ + 1]

(***************************************************************************)
(* Registration (adk_core initialize_adk_system; Resolver.register_agent   *)
(* as in specification 4.3).                                               *)
(***************************************************************************)
\* an agent instance, named by its class: the key it is stored under in
\* the adk_agents dict and the id its class passes to
\* ConstructionAgent.__init__
Agent(key, class, id) == [key |-> key, class |-> class, id |-> id]

\* the dict literal of initialize_adk_system, in its order
adk_agents ==
    <<Agent(CLIENT_ENGAGEMENT, "StrategicClientEngagementAgent",
            CLIENT_ENGAGEMENT),
      Agent(SITE_INTELLIGENCE, "SiteIntelligenceRegulatoryComplianceAgent",
            SITE_INTELLIGENCE),
      Agent(ARCHITECTURAL_DESIGN, "GenerativeArchitecturalDesignAgent",
            ARCHITECTURAL_DESIGN),
      Agent(SYSTEMS_ENGINEERING, "IntegratedSystemsEngineeringAgent",
            SYSTEMS_ENGINEERING),
      Agent(EXPERIENTIAL_DESIGN, "InteriorExperientialDesignAgent",
            EXPERIENTIAL_DESIGN),
      Agent(DIGITAL_TWIN, "HyperRealistic3DDigitalTwinAgent", DIGITAL_TWIN),
      Agent(COST_SUPPLY_CHAIN, "PredictiveCostSupplyChainAgent",
            COST_SUPPLY_CHAIN),
      Agent(PROJECT_MANAGEMENT,
            "AdaptiveProjectManagementRoboticsOrchestrationAgent",
            PROJECT_MANAGEMENT),
      Agent("risk_safety", "ProactiveRiskSafetyManagementAgent",
            "risk_safety"),
      Agent("quality_assurance", "AIDrivenQualityAssuranceControlAgent",
            "quality_assurance"),
      Agent("data_integration", "SemanticDataIntegrationOntologyAgent",
            "data_integration"),
      Agent("learning_adaptation", "LearningAdaptationAgent",
            "learning_adaptation"),
      Agent(HUMAN_COLLABORATION, "HumanAICollaborationExplainabilityAgent",
            HUMAN_COLLABORATION),
      Agent("sustainability_green", "SustainabilityGreenBuildingAgent",
            "sustainability_green"),
      Agent("financial_investment", "FinancialInvestmentAnalysisAgent",
            "financial_investment"),
      Agent("legal_contract", "LegalContractManagementAgent",
            "legal_contract"),
      Agent("workforce_hr", "WorkforceManagementHRAgent", "workforce_hr"),
      Agent("post_construction_fm", "PostConstructionFacilityManagementAgent",
            "post_construction_fm"),
      Agent("public_relations_comm",
            "PublicRelationsStakeholderCommunicationAgent",
            "public_relations_comm")>>

\* a resolver with no agent registered
NoAgents == [i \in {} |-> NONE]
NewResolver == [agents |-> NoAgents, error |-> NONE]

\* a register that replaces the agent already registered under the id
register_agent_overwrite(reg, agent) ==
    [agents |-> [i \in DOMAIN reg.agents \cup {agent.id} |->
                    IF i = agent.id THEN agent.class ELSE reg.agents[i]],
     error |-> NONE]

\* Resolver.register_agent: the agent is added under its id; an id that
\* is already present fails with DuplicateId and the mapping stays
register_agent(reg, agent) ==
    IF agent.id \in DOMAIN reg.agents
    THEN [agents |-> reg.agents, error |-> "DuplicateId"]
    ELSE [agents |-> [i \in DOMAIN reg.agents \cup {agent.id} |->
                         IF i = agent.id THEN agent.class ELSE reg.agents[i]],
          error |-> NONE]

\* the loop at lines 81-82; an exception of register_agent leaves it
RECURSIVE RegisterAll(_, _)
RegisterAll(reg, agents) ==
    IF agents = <<>> \/ reg.error # NONE THEN reg
    ELSE RegisterAll(register_agent(reg, Head(agents)), Tail(agents))

initialize_adk_system == RegisterAll(NewResolver, adk_agents)

\* a start_all_agents that schedules the loops without calling on_start
on_start_skipped(calls, ids) == calls

\* start_all_agents: on_start is called on every registered agent
on_start_all(calls, ids) ==
    [a \in Registry |-> IF a \in ids THEN calls[a] + 1 ELSE calls[a]]

\* and the loop of every registered agent is scheduled
start_all_agents(lp, ids) ==
    [a \in Registry |-> IF a \in ids THEN "STARTED" ELSE lp[a]]

\* a stop_all_agents that also forgets the agents
RegistryClearedOnStop(agents) == NoAgents

\* the resolver's mapping once stop_all_agents has returned
RegistryAfterStop(agents) == agents

(***************************************************************************)
(* Startup and shutdown (main.py lifespan, adk_core initialize_adk_system).*)
(***************************************************************************)
Init ==
    /\ app = "created"
    /\ adk_resolver = NONE
    /\ main_adk_agents = {}
    /\ registered = NoAgents
    /\ on_start_calls = [a \in Registry |-> 0]
    /\ loop = [a \in Registry |-> "CREATED"]
    /\ inbox = [a \in Registry |-> <<>>]
    /\ cur = [a \in Registry |-> NoMsg]
    /\ plan = [a \in Registry |-> NoPlan]
    /\ context = [a \in Registry |-> NONE]
    /\ response_queue = [a \in Registry |-> <<>>]
    /\ puts = [a \in Registry |-> <<>>]
    /\ sent = [a \in Registry |-> <<>>]
    /\ delivered = [a \in Registry |-> <<>>]
    /\ handled = [a \in Registry |-> <<>>]
    /\ dropped = {}
    /\ seq = [a \in Creators |-> 0]
    /\ injected = 0
    /\ turns = 0
    /\ cpc = [c \in Callers |-> "idle"]
    /\ cwaited = [c \in Callers |-> 0]
    /\ cmsg = [c \in Callers |-> NoId]
    /\ cresp = [c \in Callers |-> NoResp]
    /\ cout = [c \in Callers |-> NONE]
    /\ gen = NoGeneration

\* lifespan up to the yield: initialize_adk_system registers the agents,
\* start_all_agents calls on_start and schedules the loops.
\* initialize_adk_system rebinds adk_core.adk_agents to a new dict;
\* main.py imported the name earlier (main.py:23), so under CPython main's
\* adk_agents stays the empty import-time dict.  The comment at main.py:69
\* expects main to see the populated mapping; both bindings are modelled,
\* so that the endpoint's body past its guard is covered as well.
\* An exception of initialize_adk_system ends the process before it
\* serves (lines 79-82).
LifespanStartup ==
    /\ app = "created"
    /\ LET r == initialize_adk_system IN
         /\ r.error = NONE
         /\ registered' = r.agents
         /\ on_start_calls' = on_start_all(on_start_calls, DOMAIN r.agents)
         /\ loop' = start_all_agents(loop, DOMAIN r.agents)
    /\ app' = "running"
    /\ adk_resolver' = "resolver"
    /\ main_adk_agents' \in {main_adk_agents, Registry}
    /\ UNCHANGED <<inbox, cur, plan, context, response_queue, puts, sent,
                   delivered, handled, dropped, seq, injected, turns>>
    /\ UNCHANGED callerVars

\* a lifespan whose except clause logs the failure and goes on to serve
LifespanOnFailureServes == "running"

\* lines 79-82: the except clause raises RuntimeError, so the lifespan
\* never reaches its yield
LifespanOnFailure == "failed"

\* the ids start_all_agents has started when it fails after k agents
StartedBeforeFailure(k) == {adk_agents[i].id : i \in 1..k}

\* lifespan when startup raises: initialize_adk_system fails (line 74;
\* main's adk_resolver is not yet bound), or start_all_agents fails
\* (line 77) after it has started some of the registered agents
LifespanStartupFails ==
    /\ app = "created"
    /\ \/ UNCHANGED <<adk_resolver, registered, on_start_calls, loop>>
       \/ LET r == initialize_adk_system IN
            /\ r.error = NONE
            /\ adk_resolver' = "resolver"
            /\ registered' = r.agents
            /\ \E k \in 0..Len(adk_agents) :
                  /\ on_start_calls' =
                        on_start_all(on_start_calls, StartedBeforeFailure(k))
                  /\ loop' = start_all_agents(loop, StartedBeforeFailure(k))
    /\ app' = LifespanOnFailure
    /\ UNCHANGED main_adk_agents
    /\ UNCHANGED <<inbox, cur, plan, context, response_queue, puts, sent,
                   delivered, handled, dropped, seq, injected, turns>>
    /\ UNCHANGED callerVars

\* the scheduled loops run up to their first wait on the inbox
LoopsBegin ==
    /\ app = "running"
    /\ \A a \in Registry : loop[a] = "STARTED"
    /\ loop' = [a \in Registry |-> "IDLE"]
    /\ UNCHANGED <<inbox, cur, plan, context, response_queue, puts, sent,
                   delivered, handled, dropped, seq, injected, turns>>
    /\ UNCHANGED sysVars
    /\ UNCHANGED callerVars

\* stop_all_agents is called (main.py:89): every loop is told to end; a
\* loop that is not inside on_message ends now, a running one after its
\* handler returns.  The lifespan yields to the server between
\* start_all_agents and stop_all_agents (main.py:84), so the scheduled
\* loops have reached their first wait by then.
StopAllAgents ==
    /\ app = "running"
    /\ \A a \in Registry : loop[a] # "STARTED"
    /\ app' = "stopping"
    /\ loop' = [a \in Registry |->
                   IF loop[a] = "RUNNING" THEN "RUNNING" ELSE "STOPPING"]
    /\ UNCHANGED <<adk_resolver, main_adk_agents, registered, on_start_calls>>
    /\ UNCHANGED <<inbox, cur, plan, context, response_queue, puts, sent,
                   delivered, handled, dropped, seq, injected, turns>>
    /\ UNCHANGED callerVars

\* a stop_all_agents that does not wait for the loops
AllLoopsEndedNoWait(lp) == TRUE

\* has every loop left its last on_message and ended?
AllLoopsEnded(lp) == \A a \in Registry : lp[a] = "STOPPING"

\* stop_all_agents returns once every loop has terminated
StopAllReturn ==
    /\ app = "stopping"
    /\ AllLoopsEnded(loop)
    /\ app' = "stopped"
    /\ loop' = [a \in Registry |-> "STOPPED"]
    /\ registered' = RegistryAfterStop(registered)
    /\ UNCHANGED <<adk_resolver, main_adk_agents, on_start_calls>>
    /\ UNCHANGED <<inbox, cur, plan, context, response_queue, puts, sent,
                   delivered, handled, dropped, seq, injected, turns>>
    /\ UNCHANGED callerVars

(***************************************************************************)
(* The dispatch loop (specification 4.4) and the handlers.                 *)
(***************************************************************************)
\* the loop takes the next inbox item and calls on_message, which first
\* stores the context and then runs up to its first suspension point
\* a loop that takes its next item while on_message is still running
LoopReadyWhileRunning(st) == st \in {"IDLE", "RUNNING"}

\* the loop is waiting on its inbox
LoopReady(st) == st = "IDLE"

LoopTake(a, maxTurns) ==
    /\ app = "running"
    /\ LoopReady(loop[a])
    /\ inbox[a] # <<>>
    /\ LET m == NextItem(inbox[a]) IN
         /\ inbox' = [inbox EXCEPT ![a] = RestItems(@)]
         /\ cur' = [cur EXCEPT ![a] = m]
         /\ plan' = [plan EXCEPT ![a] = on_message(a, m)]
         /\ handled' = [handled EXCEPT ![a] = Append(@, m.id)]
    /\ loop' = [loop EXCEPT ![a] = "RUNNING"]
    /\ context' = [context EXCEPT ![a] = "ctx"]
    /\ puts' = [puts EXCEPT ![a] = <<>>]
    /\ sent' = [sent EXCEPT ![a] = <<>>]
    /\ turns < maxTurns
    /\ turns' = turns + 1
    /\ UNCHANGED <<response_queue, delivered, dropped, seq, injected>>
    /\ UNCHANGED sysVars
    /\ UNCHANGED callerVars

\* the rest of the handler after its head step completed
Advance(p) == [p EXCEPT !.body = Tail(@)]

\* an exception at the head step: inside a try block control moves to the
\* except clause, otherwise it leaves on_message and the loop catches it
Raise(p) ==
    IF p.try
    THEN [p EXCEPT !.try = FALSE, !.body = p.exc, !.exc = <<>>]
    ELSE [p EXCEPT !.branch = "failed", !.body = <<>>]

\* what json.loads of the generated text gives: a dict, no JSON at all
\* (the fallback dict is used), or JSON that is not an object
LLMShapes == {"dict", "not_json", "non_dict"}

\* does evaluating the arguments of the head step raise?
ArgsRaise(s, m) ==
    \/ s.chk = "hash" /\ m.data = "nested"
    \/ s.chk = "budget" /\ m.data # "stage"

HandlerStep(a) ==
    /\ loop[a] = "RUNNING"
    /\ plan[a].body # <<>>
    /\ LET s == Head(plan[a].body)
           m == cur[a]
       IN
       CASE s.op = "llm_json" ->
              /\ \E shape \in LLMShapes :
                    plan' = [plan EXCEPT ![a] =
                               IF shape = "non_dict" THEN Raise(@)
                               ELSE Advance(@)]
              /\ UNCHANGED <<inbox, response_queue, puts, sent, delivered,
                             dropped, seq>>
         [] s.op = "await" ->
              /\ plan' = [plan EXCEPT ![a] = Advance(@)]
              /\ UNCHANGED <<inbox, response_queue, puts, sent, delivered,
                             dropped, seq>>
         [] s.op = "put" ->
              /\ response_queue' = [response_queue EXCEPT ![a] =
                    put_response_for_api(@, ApiResponse(a, s.status, m))]
              /\ puts' = [puts EXCEPT ![a] = Append(@, s.status)]
              /\ plan' = [plan EXCEPT ![a] = Advance(@)]
              /\ UNCHANGED <<inbox, sent, delivered, dropped, seq>>
         [] s.op \in {"task", "result"} ->
              IF ArgsRaise(s, m)
              THEN /\ plan' = [plan EXCEPT ![a] = Raise(@)]
                   /\ UNCHANGED <<inbox, response_queue, puts, sent,
                                  delivered, dropped, seq>>
              ELSE LET msgs ==
                         IF s.op = "task"
                         THEN send_task_message(context[a], NewId(a), a, s.to,
                                                s.task, "stage", s.osid)
                         ELSE send_result_message(context[a], NewId(a), a, s.to,
                                                  s.status, s.tid)
                   IN /\ Emit(a, msgs)
                      /\ sent' = [sent EXCEPT ![a] = @ \o msgs]
                      /\ plan' = [plan EXCEPT ![a] = Advance(@)]
                      /\ UNCHANGED <<response_queue, puts>>
    /\ UNCHANGED <<loop, cur, context, handled, injected, turns>>
    /\ UNCHANGED sysVars
    /\ UNCHANGED callerVars

\* on_message returned (or its exception was caught by the loop): the loop
\* waits for the next item, or ends if it was told to
\* a loop that goes back to its inbox although it was told to end
LoopAfterHandlerIgnoresStop(p, lifespan) == "IDLE"

\* a loop that ends when on_message has raised
LoopAfterHandlerFailFast(p, lifespan) ==
    IF lifespan = "stopping" \/ p.branch = "failed" THEN "STOPPING" ELSE "IDLE"

\* the state of the loop after on_message: an exception is caught and
\* logged, the loop goes on unless it was told to end
LoopAfterHandler(p, lifespan) ==
    IF lifespan = "stopping" THEN "STOPPING" ELSE "IDLE"

LoopReturn(a) ==
    /\ loop[a] = "RUNNING"
    /\ plan[a].body = <<>>
    /\ loop' = [loop EXCEPT ![a] = LoopAfterHandler(plan[a], app)]
    /\ UNCHANGED <<inbox, cur, plan, context, response_queue, puts, sent,
                   delivered, handled, dropped, seq, injected, turns>>
    /\ UNCHANGED sysVars
    /\ UNCHANGED callerVars

(***************************************************************************)
(* The environment: the ADK runtime delivering a message to an agent       *)
(* through the resolver, and code outside a handler calling an agent's     *)
(* send helper (as main.py:135 does).                                      *)
(***************************************************************************)
\* the messages the runtime may deliver, with id i: an intake whose data
\* has only hashable values or has a list value, an unrecognised task, a
\* RESULT, a REQUEST for an agent that only logs, and a REQUEST for an id
\* that is not registered
EnvMessages(i) ==
    {Message(i, FASTAPI_ENDPOINT, CLIENT_ENGAGEMENT, "REQUEST", T_INTAKE,
             "plain", NONE, NONE, NONE),
     Message(i, FASTAPI_ENDPOINT, CLIENT_ENGAGEMENT, "REQUEST", T_INTAKE,
             "nested", NONE, NONE, NONE),
     Message(i, FASTAPI_ENDPOINT, CLIENT_ENGAGEMENT, "REQUEST", T_UNKNOWN,
             "plain", NONE, NONE, NONE),
     Message(i, SITE_INTELLIGENCE, CLIENT_ENGAGEMENT, "RESULT", NONE, NONE,
             NONE, "external_task", "ok"),
     Message(i, FASTAPI_ENDPOINT, "risk_safety", "REQUEST", T_UNKNOWN,
             "plain", NONE, NONE, NONE),
     Message(i, FASTAPI_ENDPOINT, UNKNOWN_AGENT, "REQUEST", T_UNKNOWN,
             "plain", NONE, NONE, NONE)}

\* those of them that look like what the endpoint submits, and the RESULT
ApiEnvMessages(i) ==
    {m \in EnvMessages(i) :
        /\ m.receiver_id = CLIENT_ENGAGEMENT
        /\ m.type = "REQUEST" => m.task = T_INTAKE /\ m.data = "nested"}

\* Resolver.deliver called by the runtime, with one of the messages msgs
ResolverDeliver(msgs, maxInject) ==
    /\ app = "running"
    /\ injected < maxInject
    /\ injected' = injected + 1
    /\ \E m \in msgs : Emit(ENV, <<m>>)
    /\ UNCHANGED <<loop, cur, plan, context, response_queue, puts, sent,
                   handled, turns>>
    /\ UNCHANGED sysVars
    /\ UNCHANGED callerVars

(***************************************************************************)
(* The /client_inquiry endpoint (main.py handle_client_inquiry) and the    *)
(* bridge's get_response_from_api.                                         *)
(***************************************************************************)
\* AgentResponse(**response): pydantic validation of the declared fields;
\* details is declared Dict[str, Any]
AgentResponseValid(r) ==
    /\ r.status # NONE
    /\ r.agent # NONE
    /\ r.details = "dict"

\* the endpoint without its except Exception clause
ResponseOutcomeUncaught(r) ==
    IF r # NoResp /\ r.status = "timeout" THEN "504"
    ELSE IF r # NoResp /\ r.status = "error" THEN "500"
    ELSE IF r = NoResp THEN "500"
    ELSE IF AgentResponseValid(r) THEN "200"
    ELSE "unhandled"

\* lines 147-163: the HTTP outcome for the response the bridge returned
ResponseOutcome(r) ==
    IF r # NoResp /\ r.status = "timeout" THEN "504"
    ELSE IF r # NoResp /\ r.status = "error" THEN "500"
    ELSE IF r = NoResp THEN "500"
    ELSE IF AgentResponseValid(r) THEN "200"
    ELSE "500"

\* lines 119-125: the guards before the try block
GuardOutcome(resolver, agents) ==
    IF resolver = NONE \/ agents = {} THEN "503"
    ELSE IF CLIENT_ENGAGEMENT \notin agents THEN "500"
    ELSE "pass"

\* the call up to its wait on the bridge: the guards, then the entry
\* agent's send_task_message addressed to the entry agent itself
InquiryCall(c) ==
    /\ app = "running"
    /\ cpc[c] = "idle"
    /\ IF c = 1 THEN TRUE ELSE cpc[c - 1] # "idle"
    /\ LET g == GuardOutcome(adk_resolver, main_adk_agents) IN
         IF g # "pass"
         THEN /\ cpc' = [cpc EXCEPT ![c] = "done"]
              /\ cout' = [cout EXCEPT ![c] = g]
              /\ UNCHANGED <<inbox, delivered, dropped, seq, cmsg>>
         ELSE LET msgs == send_task_message(context[CLIENT_ENGAGEMENT],
                              NewId(CLIENT_ENGAGEMENT), CLIENT_ENGAGEMENT,
                              CLIENT_ENGAGEMENT,
                              T_INTAKE, "nested", FASTAPI_ENDPOINT)
              IN /\ Emit(CLIENT_ENGAGEMENT, msgs)
                 /\ cpc' = [cpc EXCEPT ![c] = "waiting"]
                 /\ cmsg' = [cmsg EXCEPT ![c] =
                                IF msgs = <<>> THEN NoId ELSE Head(msgs).id]
                 /\ UNCHANGED cout
    /\ UNCHANGED <<cwaited, cresp>>
    /\ UNCHANGED <<loop, cur, plan, context, response_queue, puts, sent,
                   handled, injected, turns>>
    /\ UNCHANGED sysVars
    /\ UNCHANGED gen

\* time passes for the callers waiting in asyncio.wait_for
Tick ==
    /\ \E c \in Callers : cpc[c] = "waiting" /\ cwaited[c] < TimeoutTicks
    /\ cwaited' = [c \in Callers |->
                     IF cpc[c] = "waiting" /\ cwaited[c] < TimeoutTicks
                     THEN cwaited[c] + 1 ELSE cwaited[c]]
    /\ UNCHANGED <<cpc, cmsg, cresp, cout>>
    /\ UNCHANGED agentVars
    /\ UNCHANGED injected
    /\ UNCHANGED sysVars
    /\ UNCHANGED gen

\* a wait_for that may give up at any time
DeadlineReachedEarly(w) == TRUE

\* may wait_for give up after w ticks of waiting?
DeadlineReached(w) == w >= TimeoutTicks

\* the queue get_response_from_api leaves behind when it times out
QueueAfterTimeout(q) == q

\* get_response_from_api returns the head of the response queue
InquiryGet(c) ==
    /\ cpc[c] = "waiting"
    /\ response_queue[CLIENT_ENGAGEMENT] # <<>>
    /\ LET r == Head(response_queue[CLIENT_ENGAGEMENT]) IN
         /\ cresp' = [cresp EXCEPT ![c] = r]
         /\ cout' = [cout EXCEPT ![c] = ResponseOutcome(r)]
    /\ response_queue' = [response_queue EXCEPT
                             ![CLIENT_ENGAGEMENT] = Tail(@)]
    /\ cpc' = [cpc EXCEPT ![c] = "done"]
    /\ cwaited' = [cwaited EXCEPT ![c] = 0]
    /\ UNCHANGED cmsg
    /\ UNCHANGED <<loop, inbox, cur, plan, context, puts, sent, delivered,
                   handled, dropped, seq, injected, turns>>
    /\ UNCHANGED sysVars
    /\ UNCHANGED gen

\* get_response_from_api times out: the queue is still empty at the
\* deadline
InquiryTimeout(c) ==
    /\ cpc[c] = "waiting"
    /\ response_queue[CLIENT_ENGAGEMENT] = <<>>
    /\ DeadlineReached(cwaited[c])
    /\ LET r == TimeoutResponse(CLIENT_ENGAGEMENT) IN
         /\ cresp' = [cresp EXCEPT ![c] = r]
         /\ cout' = [cout EXCEPT ![c] = ResponseOutcome(r)]
    /\ response_queue' = [response_queue EXCEPT ![CLIENT_ENGAGEMENT] =
                             QueueAfterTimeout(@)]
    /\ cpc' = [cpc EXCEPT ![c] = "done"]
    /\ UNCHANGED <<cwaited, cmsg>>
    /\ UNCHANGED <<loop, inbox, cur, plan, context, puts, sent, delivered,
                   handled, dropped, seq, injected, turns>>
    /\ UNCHANGED sysVars
    /\ UNCHANGED gen

\* the agent system under the runtime: startup, delivery, dispatch,
\* handlers, shutdown
Next ==
    \/ LifespanStartup
    \/ LoopsBegin
    \/ StopAllAgents
    \/ StopAllReturn
    \/ ResolverDeliver(EnvMessages(NewId(ENV)), MaxInject)
    \/ \E a \in Registry : LoopTake(a, MaxTurns)
    \/ \E a \in Registry : HandlerStep(a)
    \/ \E a \in Registry : LoopReturn(a)

Spec == Init /\ [][Next]_vars

\* the agent system where startup may fail
NextLifespan ==
    \/ LifespanStartup
    \/ LifespanStartupFails
    \/ LoopsBegin
    \/ StopAllAgents
    \/ StopAllReturn
    \/ ResolverDeliver(EnvMessages(NewId(ENV)), LifespanInject)
    \/ \E a \in Registry : LoopTake(a, LifespanTurns)
    \/ \E a \in Registry : HandlerStep(a)
    \/ \E a \in Registry : LoopReturn(a)

SpecLifespan == Init /\ [][NextLifespan]_vars

\* the running agent system with callers of the /client_inquiry endpoint
NextApi ==
    \/ LifespanStartup
    \/ LoopsBegin
    \/ ResolverDeliver(ApiEnvMessages(NewId(ENV)), ApiInject)
    \/ \E a \in Registry : LoopTake(a, ApiTurns)
    \/ \E a \in Registry : HandlerStep(a)
    \/ \E a \in Registry : LoopReturn(a)
    \/ \E c \in Callers : InquiryCall(c)
    \/ Tick
    \/ \E c \in Callers : InquiryGet(c)
    \/ \E c \in Callers : InquiryTimeout(c)

SpecApi == Init /\ [][NextApi]_vars

(***************************************************************************)
(* The handlers on all their inputs: the system is running, one agent has  *)
(* one or two items in its inbox, the first drawn from every kind of       *)
(* message on_message distinguishes (also those a resolver does not route  *)
(* to this agent: another receiver_id, a stray type).                      *)
(***************************************************************************)
\* the task names the REQUEST branch of agent a tests for
RecognisedTasks(a) ==
    CASE a = CLIENT_ENGAGEMENT -> {T_INTAKE}
      [] a = SITE_INTELLIGENCE -> {T_SITE}
      [] a = ARCHITECTURAL_DESIGN -> {T_ARCH}
      [] a = SYSTEMS_ENGINEERING -> {T_SYS}
      [] a = EXPERIENTIAL_DESIGN -> {T_EXP}
      [] a = DIGITAL_TWIN -> {T_TWIN}
      [] a = COST_SUPPLY_CHAIN -> {T_COST}
      [] a = PROJECT_MANAGEMENT -> {T_PLAN, T_MASTER}
      [] a = HUMAN_COLLABORATION -> {T_PRESENT}
      [] OTHER -> {}

\* some registered agent other than a
OtherAgent(a) ==
    IF a = CLIENT_ENGAGEMENT THEN SITE_INTELLIGENCE ELSE CLIENT_ENGAGEMENT

\* who may have sent a REQUEST to agent a: code outside the agents, another
\* agent, and for the entry agent also itself (the endpoint submits with
\* the entry agent's own send_task_message, main.py:135)
RequestSenders(a) ==
    {FASTAPI_ENDPOINT, OtherAgent(a)} \cup
    (IF a = CLIENT_ENGAGEMENT THEN {a} ELSE {})

\* the messages on_message of agent a is tried on, with id i
HandlerInputs(a, i) ==
    {Message(i, s, a, "REQUEST", t, d, o, NONE, NONE) :
        s \in RequestSenders(a),
        t \in RecognisedTasks(a) \cup {T_UNKNOWN},
        d \in {"plain", "nested", "stage"},
        o \in {NONE, FASTAPI_ENDPOINT}}
    \cup
    {Message(i, OtherAgent(a), r, ty, t, "stage", NONE, NONE, NONE) :
        r \in {a, OtherAgent(a)},
        ty \in {"REQUEST", STRAY_TYPE},
        t \in RecognisedTasks(a) \cup {T_UNKNOWN}}
    \cup
    {Message(i, OtherAgent(a), r, "RESULT", NONE, NONE, NONE,
             "external_task", "ok") : r \in {a, OtherAgent(a)}}

\* the REQUESTs that may wait behind the first item
FollowUps(a, i) ==
    {Message(i, OtherAgent(a), a, "REQUEST", t, "stage", NONE, NONE, NONE) :
        t \in RecognisedTasks(a) \cup {T_UNKNOWN}}

InitHandler ==
    \E a \in Registry :
    \E m1 \in HandlerInputs(a, <<ENV, 1>>) :
    \E m2 \in {NoMsg} \cup FollowUps(a, <<ENV, 2>>) :
        LET q == IF m2 = NoMsg THEN <<m1>> ELSE <<m1, m2>> IN
        /\ app = "running"
        /\ adk_resolver = "resolver"
        /\ main_adk_agents = {}
        /\ registered = initialize_adk_system.agents
        /\ on_start_calls = on_start_all([b \in Registry |-> 0], Registry)
        /\ loop = [b \in Registry |-> "IDLE"]
        /\ inbox = [b \in Registry |-> IF b = a THEN q ELSE <<>>]
        /\ cur = [b \in Registry |-> NoMsg]
        /\ plan = [b \in Registry |-> NoPlan]
        /\ context = [b \in Registry |-> NONE]
        /\ response_queue = [b \in Registry |-> <<>>]
        /\ puts = [b \in Registry |-> <<>>]
        /\ sent = [b \in Registry |-> <<>>]
        /\ delivered = [b \in Registry |-> IF b = a THEN Ids(q) ELSE <<>>]
        /\ handled = [b \in Registry |-> <<>>]
        /\ dropped = {}
        /\ seq = [b \in Creators |-> IF b = ENV THEN Len(q) ELSE 0]
        /\ injected = Len(q)
        /\ turns = 0
        /\ cpc = [c \in Callers |-> "idle"]
        /\ cwaited = [c \in Callers |-> 0]
        /\ cmsg = [c \in Callers |-> NoId]
        /\ cresp = [c \in Callers |-> NoResp]
        /\ cout = [c \in Callers |-> NONE]
        /\ gen = NoGeneration

NextHandler ==
    \/ \E a \in Registry : LoopTake(a, HandlerTurns)
    \/ \E a \in Registry : HandlerStep(a)
    \/ \E a \in Registry : LoopReturn(a)

SpecHandler == InitHandler /\ [][NextHandler]_vars

(***************************************************************************)
(* The workflow from one message: the system is running, one message of    *)
(* any kind is in one agent's inbox, and the loops run until nothing is    *)
(* left to do.  The event loop runs a task that is ready, so the system    *)
(* does not stop while some loop or handler can take a step.               *)
(***************************************************************************)
\* the single message of a workflow run.  It was built by an agent's send
\* helper; the entry agent gets the endpoint's submission (sent with its
\* own helper, naming the endpoint as origin, main.py:135-140) or a
\* REQUEST of another agent without an origin; data with a list value is
\* what the endpoint submits, and data that lacks the fields a stage
\* builds matters to the two handlers that use them unguarded
WorkflowInput(m) ==
    /\ m.sender_id # FASTAPI_ENDPOINT
    /\ m.sender_id = CLIENT_ENGAGEMENT /\ m.receiver_id = CLIENT_ENGAGEMENT
          <=> m.original_sender_id # NONE
    /\ m.data = "nested" => m.receiver_id = CLIENT_ENGAGEMENT
    /\ m.data = "plain" =>
          m.receiver_id \in {CLIENT_ENGAGEMENT, PROJECT_MANAGEMENT}

InitWorkflow ==
    /\ InitHandler
    /\ injected = 1
    /\ \A a \in Registry :
          \A k \in 1..Len(inbox[a]) : WorkflowInput(inbox[a][k])

NextWorkflow ==
    \/ \E a \in Registry : LoopTake(a, WorkflowTurns)
    \/ \E a \in Registry : HandlerStep(a)
    \/ \E a \in Registry : LoopReturn(a)

SpecWorkflow ==
    /\ InitWorkflow
    /\ [][NextWorkflow]_vars
    /\ WF_vars(NextWorkflow)

(***************************************************************************)
(* The direct generation endpoints (main.py /generate_text and             *)
(* /generate_image) and LLMApi (llm_api.py).  A string is the sequence of  *)
(* its characters; the part after the characters that matter is kept as    *)
(* one element.                                                            *)
(***************************************************************************)
\* str.startswith
startswith(str, prefix) ==
    /\ Len(str) >= Len(prefix)
    /\ SubSeq(str, 1, Len(prefix)) = prefix

\* "Error:"
ERROR_COLON == <<"E", "r", "r", "o", "r", ":">>

\* "Error"
ERROR_WORD == <<"E", "r", "r", "o", "r">>

\* what the model call does: it gives a complete response with a text (an
\* image), an incomplete response, or it raises
GeneratedTexts ==
    {<<"A", " ", "v", "i", "l", "l", "a">>,
     <<>>,
     ERROR_COLON \o <<" ", "4", "0", "4", " pages explained">>}

\* base64 of a PNG
GeneratedImages == {<<"i", "V", "B", "O", "R", "w", "0", "KGgo...">>}

ModelExceptions == {<<"503 unavailable">>, <<"quota exceeded">>}

ModelOutcomes(endpoint) ==
    {[kind |-> "ok", value |-> t] :
        t \in IF endpoint = "text" THEN GeneratedTexts ELSE GeneratedImages}
    \cup {[kind |-> "incomplete", value |-> <<>>]}
    \cup {[kind |-> "raises", value |-> e] : e \in ModelExceptions}

\* LLMApi.generate_text: the text, "Error: Gemini response incomplete."
\* or f"Error generating text: {e}"
generate_text(o) ==
    IF o.kind = "ok" THEN o.value
    ELSE IF o.kind = "incomplete"
         THEN ERROR_COLON \o <<" ", "Gemini response incomplete.">>
         ELSE ERROR_WORD \o <<" ", "g", "enerating text: ">> \o o.value

\* LLMApi.generate_image: the base64 string, "Error: Imagen response
\* incomplete." or f"Error generating image: {e}"
generate_image(o) ==
    IF o.kind = "ok" THEN o.value
    ELSE IF o.kind = "incomplete"
         THEN ERROR_COLON \o <<" ", "Imagen response incomplete.">>
         ELSE ERROR_WORD \o <<" ", "g", "enerating image: ">> \o o.value

\* the prompts of a request body: no "prompt" key, an empty one, a prompt
Prompts == {NONE, "", "a villa by the sea"}

\* generate_text_endpoint / generate_image_endpoint up to the await of the
\* model call: 400 without a prompt
GenerateCall(endpoint, prompt) ==
    /\ app = "running"
    /\ gen.pc \in {"idle", "answered"}
    /\ gen.n < GenRequests
    /\ gen' = IF Truthy(prompt)
              THEN [NoGeneration EXCEPT !.pc = "generating",
                                        !.endpoint = endpoint,
                                        !.prompt = prompt,
                                        !.n = gen.n + 1]
              ELSE [NoGeneration EXCEPT !.pc = "answered",
                                        !.endpoint = endpoint,
                                        !.prompt = prompt,
                                        !.status = "400",
                                        !.n = gen.n + 1]
    /\ UNCHANGED agentVars
    /\ UNCHANGED injected
    /\ UNCHANGED sysVars
    /\ UNCHANGED <<cpc, cwaited, cmsg, cresp, cout>>

\* the awaited LLMApi method returns its string
LLMApi_generate ==
    /\ gen.pc = "generating"
    /\ \E o \in ModelOutcomes(gen.endpoint) :
          gen' = [gen EXCEPT !.pc = "returned",
                             !.outcome = o,
                             !.returned = IF gen.endpoint = "text"
                                          THEN generate_text(o)
                                          ELSE generate_image(o)]
    /\ UNCHANGED agentVars
    /\ UNCHANGED injected
    /\ UNCHANGED sysVars
    /\ UNCHANGED <<cpc, cwaited, cmsg, cresp, cout>>

\* lines 180-182 and 196-198: 500 for a string that starts with "Error:",
\* otherwise the string as the generated content
GenerateAnswer ==
    /\ gen.pc = "returned"
    /\ gen' = IF startswith(gen.returned, ERROR_COLON)
              THEN [gen EXCEPT !.pc = "answered", !.status = "500"]
              ELSE [gen EXCEPT !.pc = "answered", !.status = "200",
                               !.body = gen.returned]
    /\ UNCHANGED agentVars
    /\ UNCHANGED injected
    /\ UNCHANGED sysVars
    /\ UNCHANGED <<cpc, cwaited, cmsg, cresp, cout>>

NextGenerate ==
    \/ LifespanStartup
    \/ \E e \in {"text", "image"} : \E p \in Prompts : GenerateCall(e, p)
    \/ LLMApi_generate
    \/ GenerateAnswer

SpecGenerate == Init /\ [][NextGenerate]_vars

TypeOK ==
    /\ app \in {"created", "running", "stopping", "stopped", "failed"}
    /\ \A a \in Registry :
          loop[a] \in {"CREATED", "STARTED", "IDLE", "RUNNING", "STOPPING",
                       "STOPPED"}
    /\ \A c \in Callers : cpc[c] \in {"idle", "waiting", "done"}

(***************************************************************************)
(* Properties.                                                             *)
(***************************************************************************)
IsPrefix(p, q) == Len(p) <= Len(q) /\ \A i \in 1..Len(p) : p[i] = q[i]

NoDuplicates(q) == \A i, j \in 1..Len(q) : i # j => q[i] # q[j]

\* the entry agent is not inside on_message and the message it handled
\* last was an intake REQUEST addressed to it
IntakeHandled ==
    /\ loop[CLIENT_ENGAGEMENT] # "RUNNING"
    /\ IsRequestForMe(CLIENT_ENGAGEMENT, cur[CLIENT_ENGAGEMENT])
    /\ cur[CLIENT_ENGAGEMENT].task = T_INTAKE

\* C1: per-receiver FIFO.  For every receiver the messages handed to its
\* on_message so far are, in the same order, the first of the messages
\* delivered to it.
C1_PerReceiverFIFO ==
    \A a \in Registry : IsPrefix(handled[a], delivered[a])

\* an agent has handled two messages constructed by different senders
C1_Witness ==
    \E a \in Registry :
        /\ Len(handled[a]) >= 2
        /\ handled[a][1][1] # handled[a][2][1]

\* C2: exactly-once handling.  For every receiver each delivered message
\* is delivered once, and the delivered messages are exactly those already
\* handed to on_message followed by those still waiting in the inbox: none
\* is handled twice and none is lost.
C2_ExactlyOnce ==
    \A a \in Registry :
        /\ NoDuplicates(delivered[a])
        /\ handled[a] \o Ids(inbox[a]) = delivered[a]

\* one receiver has handled all of at least three messages that came from
\* at least two senders
C2_Witness ==
    \E a \in Registry :
        /\ Len(delivered[a]) >= 3
        /\ handled[a] = delivered[a]
        /\ \E i, j \in 1..Len(handled[a]) : handled[a][i][1] # handled[a][j][1]

\* C3: a message for an unregistered id is dropped silently.  It is in no
\* inbox and is handled by no agent, and the step that drops it changes no
\* inbox, no bridge and no handler (nothing is raised, nothing is sent
\* back).
C3_UnknownReceiverDropped ==
    /\ [](\A m \in dropped : \A a \in Registry :
             /\ \A i \in 1..Len(inbox[a]) : inbox[a][i].id # m.id
             /\ \A i \in 1..Len(handled[a]) : handled[a][i] # m.id)
    /\ [][dropped' # dropped =>
             /\ inbox' = inbox
             /\ response_queue' = response_queue
             /\ plan' = plan
             /\ loop' = loop]_vars

\* a message was dropped and agents went on handling other messages
C3_Witness ==
    /\ dropped # {}
    /\ \E a \in Registry : handled[a] # <<>>

\* C4: when the entry agent has handled an intake, it has put exactly one
\* response on the bridge, with status processing_initiated or error.
C4_PutExactlyOnce ==
    IntakeHandled =>
        /\ Len(puts[CLIENT_ENGAGEMENT]) = 1
        /\ puts[CLIENT_ENGAGEMENT][1] \in {"processing_initiated", "error"}

\* C5: when the entry agent has handled an intake, it has sent exactly one
\* message, a REQUEST to the site intelligence agent whose
\* original_sender_id is the sender_id of the intake.
C5_ForwardExactlyOne ==
    IntakeHandled =>
        /\ Len(sent[CLIENT_ENGAGEMENT]) = 1
        /\ sent[CLIENT_ENGAGEMENT][1].type = "REQUEST"
        /\ sent[CLIENT_ENGAGEMENT][1].receiver_id = SITE_INTELLIGENCE
        /\ sent[CLIENT_ENGAGEMENT][1].original_sender_id =
              cur[CLIENT_ENGAGEMENT].sender_id

\* C6: a caller of the endpoint that waits on the bridge has enqueued
\* exactly one REQUEST on the entry agent's inbox.
C6_SubmissionEnqueued ==
    \A c \in Callers :
        cpc[c] = "waiting" =>
            /\ cmsg[c] # NoId
            /\ Len(SelectSeq(delivered[CLIENT_ENGAGEMENT],
                             LAMBDA i : i = cmsg[c])) = 1

\* C7: the bridge's timeout is a value.  A get that returned the timeout
\* result waited the whole timeout and was mapped to HTTP 504, and the
\* step that returns it leaves the response queue as it was.
C7_TimeoutIsValue ==
    /\ [](\A c \in Callers :
             cresp[c].status = "timeout" =>
                /\ cwaited[c] >= TimeoutTicks
                /\ cresp[c] = TimeoutResponse(CLIENT_ENGAGEMENT)
                /\ cout[c] = "504")
    /\ [][\A c \in Callers :
             cresp'[c] # cresp[c] /\ cresp'[c].status = "timeout" =>
                /\ response_queue[CLIENT_ENGAGEMENT] = <<>>
                /\ response_queue' = response_queue]_vars

\* a caller's get timed out
C7_Witness ==
    \E c \in Callers : cpc[c] = "done" /\ cresp[c].status = "timeout"

\* C8: the bridge is a FIFO queue.  Every step that changes the entry
\* agent's response queue either appends one response at its tail and
\* keeps all the others, or removes its head, which is then the response
\* of exactly one caller's get.
C8_BridgeFIFO ==
    [][LET q == response_queue[CLIENT_ENGAGEMENT]
           q2 == response_queue'[CLIENT_ENGAGEMENT]
       IN q2 # q =>
            \/ /\ Len(q2) = Len(q) + 1
               /\ SubSeq(q2, 1, Len(q)) = q
            \/ /\ q # <<>>
               /\ q2 = Tail(q)
               /\ \E c \in Callers :
                     /\ cresp'[c] = Head(q)
                     /\ cpc[c] = "waiting"
                     /\ cpc'[c] = "done"
                     /\ \A d \in Callers \ {c} : cresp'[d] = cresp[d]]_vars

\* two responses were put with no get in between, a caller got the first
\* and the second is now at the head of the queue
C8_Witness ==
    \E c \in Callers :
        /\ cpc[c] = "done"
        /\ cresp[c].status = "processing_initiated"
        /\ response_queue[CLIENT_ENGAGEMENT] # <<>>
        /\ Head(response_queue[CLIENT_ENGAGEMENT]).req = cresp[c].req
        /\ Head(response_queue[CLIENT_ENGAGEMENT]).status = "error"

C10_GracefulShutdown ==
    /\ [](app = "stopped" =>
             \A a \in Registry :
                /\ loop[a] = "STOPPED"
                /\ plan[a].body = <<>>)
    /\ [][app = "stopped" => handled' = handled /\ cur' = cur]_vars

\* stop_all_agents has returned, an agent that handled a message still
\* has one waiting in its inbox
C10_Witness ==
    /\ app = "stopped"
    /\ \E a \in Registry : inbox[a] # <<>> /\ handled[a] # <<>>

\* C11: a handler failure stays inside its agent.  The step at which
\* on_message raises changes no inbox, no bridge and nothing of any other
\* agent; the loop of the failing agent does not end because of it and,
\* back at its inbox, is ready to hand the next item to on_message.
C11_HandlerFailureIsolation ==
    /\ [][\A a \in Registry :
             plan[a].branch # "failed" /\ plan'[a].branch = "failed" =>
                /\ inbox' = inbox
                /\ response_queue' = response_queue
                /\ loop' = loop
                /\ \A b \in Registry \ {a} :
                      plan'[b] = plan[b] /\ cur'[b] = cur[b]]_vars
    /\ [][\A a \in Registry :
             plan[a].branch = "failed" /\ loop[a] = "RUNNING" =>
                loop'[a] \in {"RUNNING", "IDLE"}]_vars
    /\ [](\A a \in Registry :
             /\ plan[a].branch = "failed"
             /\ loop[a] # "RUNNING"
             /\ inbox[a] # <<>>
             /\ turns < HandlerTurns
             => ENABLED LoopTake(a, HandlerTurns))

\* the handler of an agent raised, its loop is back at the inbox where
\* the next message waits, and another agent is untouched
C11_Witness ==
    \E a \in Registry :
        /\ plan[a].branch = "failed"
        /\ loop[a] = "IDLE"
        /\ inbox[a] # <<>>
        /\ \A b \in Registry \ {a} : loop[b] = "IDLE" /\ inbox[b] = <<>>

\* C12: a send helper called on an agent that has no delivery context
\* sends nothing and does not raise.  Both helpers yield no message for
\* any receiver, and the endpoint's submission made before the entry agent
\* has handled a message returns normally (the caller goes on to wait)
\* with every inbox, the agent's context and its response queue as they
\* were.
C12_NoContextSendsNothing ==
    /\ [](\A a \in Registry : \A r \in Registry \cup {UNKNOWN_AGENT} :
             /\ send_task_message(NONE, NewId(a), a, r, T_INTAKE, "nested",
                                  FASTAPI_ENDPOINT) = <<>>
             /\ send_result_message(NONE, NewId(a), a, r, "ok",
                                    "site_analysis_complete") = <<>>)
    /\ [][\A c \in Callers :
             /\ cpc[c] = "idle"
             /\ cpc'[c] # "idle"
             /\ main_adk_agents # {}
             /\ context[CLIENT_ENGAGEMENT] = NONE
             => /\ cpc'[c] = "waiting"
                /\ cout'[c] = cout[c]
                /\ cmsg'[c] = NoId
                /\ inbox' = inbox
                /\ delivered' = delivered
                /\ dropped' = dropped
                /\ context' = context
                /\ response_queue' = response_queue
                /\ plan' = plan
                /\ loop' = loop]_vars

\* a caller submitted while the entry agent had no context and is waiting
\* with nothing in any inbox
C12_Witness ==
    \E c \in Callers :
        /\ cpc[c] = "waiting"
        /\ cmsg[c] = NoId
        /\ context[CLIENT_ENGAGEMENT] = NONE
        /\ \A a \in Registry : inbox[a] = <<>>

\* task_id values a caller of send_result_message may supply
TaskIdValues == {"", "site_analysis_complete", "echo-1"}

\* what the call send_result_message(to, result, tid) made by agent a in
\* its current turn hands to the resolver
AnswerOf(a, to, tid) ==
    send_result_message(context[a], NewId(a), a, to, "ok", tid)

\* C13: round-trip correlation.  Whenever an agent is handling a REQUEST
\* of a registered sender, answering it with send_result_message(sender,
\* result, task_id) delivers exactly one RESULT to that sender and to
\* nobody else, with the answering agent as sender_id and with the
\* supplied task_id in its payload, for every task_id value.
C13_RoundTripCorrelation ==
    \A a \in Registry :
        /\ loop[a] = "RUNNING"
        /\ cur[a].type = "REQUEST"
        /\ cur[a].sender_id \in Registry
        => \A tid \in TaskIdValues :
              LET to == cur[a].sender_id
                  msgs == AnswerOf(a, to, tid)
                  inb == DeliverAll(inbox, msgs)
              IN /\ Len(msgs) = 1
                 /\ msgs[1].type = "RESULT"
                 /\ msgs[1].sender_id = a
                 /\ msgs[1].receiver_id = to
                 /\ msgs[1].task_id = tid
                 /\ inb[to] = Append(inbox[to], msgs[1])
                 /\ \A b \in Registry \ {to} : inb[b] = inbox[b]

\* the stage agents of the design chain, the agent each forwards to, and
\* the task_id of its report and of its failure report
StageAgents ==
    {SITE_INTELLIGENCE, ARCHITECTURAL_DESIGN, SYSTEMS_ENGINEERING,
     EXPERIENTIAL_DESIGN, DIGITAL_TWIN}

NextStage(b) ==
    CASE b = SITE_INTELLIGENCE -> ARCHITECTURAL_DESIGN
      [] b = ARCHITECTURAL_DESIGN -> SYSTEMS_ENGINEERING
      [] b = SYSTEMS_ENGINEERING -> EXPERIENTIAL_DESIGN
      [] b = EXPERIENTIAL_DESIGN -> DIGITAL_TWIN
      [] b = DIGITAL_TWIN -> PROJECT_MANAGEMENT

StageTaskId(b) ==
    CASE b = SITE_INTELLIGENCE -> "site_analysis_complete"
      [] b = ARCHITECTURAL_DESIGN -> "architectural_concepts_generated"
      [] b = SYSTEMS_ENGINEERING -> "systems_engineering_complete"
      [] b = EXPERIENTIAL_DESIGN -> "experiential_design_complete"
      [] b = DIGITAL_TWIN -> "digital_twin_complete"

StageFailedId(b) ==
    CASE b = SITE_INTELLIGENCE -> "site_analysis_failed"
      [] b = ARCHITECTURAL_DESIGN -> "architectural_design_failed"
      [] b = DIGITAL_TWIN -> "digital_twin_failed"
      [] OTHER -> NONE

\* agent b is not inside on_message and the message it handled last was a
\* REQUEST addressed to it for its stage task
StageHandled(b) ==
    /\ loop[b] # "RUNNING"
    /\ IsRequestForMe(b, cur[b])
    /\ cur[b].task \in RecognisedTasks(b)

\* the messages agent b sent to agent r in its last turn
SentTo(b, r) == SelectSeq(sent[b], LAMBDA m : m.receiver_id = r)

Occurrences(q, x) == Cardinality({i \in 1..Len(q) : q[i] = x})

\* agent r received exactly one message from b's last turn, of the type
ReceivedOne(b, r, type) ==
    /\ Len(SentTo(b, r)) = 1
    /\ SentTo(b, r)[1].type = type
    /\ Occurrences(delivered[r], SentTo(b, r)[1].id) = 1

\* C14 as stated: when a stage agent has handled its stage REQUEST, the
\* next-stage agent has received exactly one REQUEST from it, carrying
\* the original_sender_id of the REQUEST handled, and the client
\* engagement agent exactly one RESULT carrying a task_id of that stage.
C14_ThreeAgentChain ==
    \A b \in StageAgents :
        StageHandled(b) =>
            /\ ReceivedOne(b, NextStage(b), "REQUEST")
            /\ SentTo(b, NextStage(b))[1].original_sender_id =
                  cur[b].original_sender_id
            /\ ReceivedOne(b, CLIENT_ENGAGEMENT, "RESULT")
            /\ SentTo(b, CLIENT_ENGAGEMENT)[1].task_id \in
                  {StageTaskId(b), StageFailedId(b)}

\* C14 amended: when a stage agent has handled its stage REQUEST, the
\* client engagement agent has received exactly one RESULT from it, and
\* either that RESULT carries the stage's completion task_id and the
\* next-stage agent has received exactly one REQUEST carrying the
\* original_sender_id of the REQUEST handled, or the stage's work raised,
\* the RESULT carries the stage's failure task_id and nothing was
\* forwarded.
C14_ChainOrFailureReport ==
    \A b \in StageAgents :
        StageHandled(b) =>
            /\ ReceivedOne(b, CLIENT_ENGAGEMENT, "RESULT")
            /\ \/ /\ SentTo(b, CLIENT_ENGAGEMENT)[1].task_id = StageTaskId(b)
                  /\ ReceivedOne(b, NextStage(b), "REQUEST")
                  /\ SentTo(b, NextStage(b))[1].original_sender_id =
                        cur[b].original_sender_id
                  /\ Len(sent[b]) = 2
               \/ /\ StageFailedId(b) # NONE
                  /\ SentTo(b, CLIENT_ENGAGEMENT)[1].task_id = StageFailedId(b)
                  /\ Len(sent[b]) = 1

\* the site intelligence agent, asked with an original_sender_id,
\* reported and forwarded; the architectural design agent, handling that
\* REQUEST, failed and reported the failure
C14_Witness ==
    /\ StageHandled(SITE_INTELLIGENCE)
    /\ cur[SITE_INTELLIGENCE].original_sender_id = FASTAPI_ENDPOINT
    /\ Len(sent[SITE_INTELLIGENCE]) = 2
    /\ StageHandled(ARCHITECTURAL_DESIGN)
    /\ cur[ARCHITECTURAL_DESIGN].id = sent[SITE_INTELLIGENCE][2].id
    /\ Len(sent[ARCHITECTURAL_DESIGN]) = 1
    /\ sent[ARCHITECTURAL_DESIGN][1].task_id = "architectural_design_failed"

\* a REQUEST addressed to agent a with a task name a does not test for
UnknownTaskRequest(a, m) ==
    IsRequestForMe(a, m) /\ m.task \notin RecognisedTasks(a)

\* C15: an unknown task is logged and ignored.  For every agent, when the
\* message of its current or last turn is a REQUEST addressed to it with
\* a task name it does not recognise, the handler has nothing to run, has
\* not raised, has sent no message and has put nothing on the bridge; and
\* once the loop is back at its inbox the next item can be handed to
\* on_message.
C15_UnknownTaskIgnored ==
    \A a \in Registry :
        UnknownTaskRequest(a, cur[a]) =>
            /\ plan[a].body = <<>>
            /\ plan[a].branch # "failed"
            /\ sent[a] = <<>>
            /\ puts[a] = <<>>
            /\ loop[a] \in {"RUNNING", "IDLE"}
            /\ (loop[a] = "IDLE" /\ inbox[a] # <<>> /\ turns < HandlerTurns
                  => ENABLED LoopTake(a, HandlerTurns))

\* an agent that recognises some task has handled a REQUEST with an
\* unknown one, and a REQUEST it recognises waits in its inbox
C15_Witness ==
    \E a \in Registry :
        /\ UnknownTaskRequest(a, cur[a])
        /\ loop[a] = "IDLE"
        /\ inbox[a] # <<>>
        /\ Head(inbox[a]).task \in RecognisedTasks(a)

\* C16: a message that is neither a REQUEST addressed to the agent nor a
\* RESULT is logged and ignored.  For every one of the 19 agents, when
\* the message of its current or last turn is such a message, on_message
\* took its final else branch, has not raised, has sent no message and
\* has put nothing on the bridge.
C16_UnexpectedMessageIgnored ==
    \A a \in Registry :
        /\ cur[a] # NoMsg
        /\ ~(cur[a].type = "REQUEST" /\ cur[a].receiver_id = a)
        /\ cur[a].type # "RESULT"
        => /\ plan[a].branch = "unexpected"
           /\ plan[a].body = <<>>
           /\ sent[a] = <<>>
           /\ puts[a] = <<>>
           /\ loop[a] \in {"RUNNING", "IDLE"}

\* an agent has handled a REQUEST for its own task that is addressed to
\* another agent, and the REQUEST waiting behind it is still in its inbox
C16_Witness ==
    \E a \in Registry \ LeafAgents :
        /\ loop[a] = "IDLE"
        /\ cur[a].type = "REQUEST"
        /\ cur[a].receiver_id \notin {a, NONE}
        /\ cur[a].task \in RecognisedTasks(a)
        /\ inbox[a] # <<>>

\* the resolver as it is once initialize_adk_system has returned
Initialized == [agents |-> registered, error |-> NONE]

\* C17: agent ids are unique in the registry.  Once initialize_adk_system
\* has returned, registering any agent whose id is present fails with
\* DuplicateId and leaves the mapping as it was; the 19 keys of adk_agents
\* are the registered ids, each mapped to the instance stored under that
\* key, and these are 19 distinct instances.
C17_UniqueAgentIds ==
    app # "created" =>
        /\ \A i \in 1..Len(adk_agents) :
              /\ register_agent(Initialized, adk_agents[i]).error = "DuplicateId"
              /\ register_agent(Initialized, adk_agents[i]).agents = registered
              /\ register_agent(Initialized,
                                Agent(NONE, "another instance",
                                      adk_agents[i].id)).error = "DuplicateId"
              /\ register_agent(Initialized,
                                Agent(NONE, "another instance",
                                      adk_agents[i].id)).agents = registered
        /\ DOMAIN registered = {adk_agents[i].key : i \in 1..Len(adk_agents)}
        /\ Cardinality(DOMAIN registered) = 19
        /\ \A i \in 1..Len(adk_agents) :
              registered[adk_agents[i].key] = adk_agents[i].class
        /\ \A k1, k2 \in DOMAIN registered :
              k1 # k2 => registered[k1] # registered[k2]

\* the agents are registered and two of them have handled messages
C17_Witness ==
    /\ Cardinality(DOMAIN registered) = 19
    /\ \E a, b \in DOMAIN registered :
          a # b /\ handled[a] # <<>> /\ handled[b] # <<>>

C19_OnStartOnceBeforeMessages ==
    \A a \in Registry :
        /\ app = "created" => on_start_calls[a] = 0 /\ handled[a] = <<>>
        /\ app # "created" => on_start_calls[a] = 1
        /\ handled[a] # <<>> \/ loop[a] = "RUNNING" => on_start_calls[a] = 1
        /\ app = "running" => loop[a] \in {"STARTED", "IDLE", "RUNNING"}

\* startup has returned, an agent is inside on_message and another one
\* has handled a message
C19_Witness ==
    /\ app = "running"
    /\ \E a, b \in Registry :
          /\ a # b
          /\ loop[a] = "RUNNING"
          /\ handled[b] # <<>>
          /\ on_start_calls[a] = 1
          /\ on_start_calls[b] = 1

\* C20: no interleaving within one agent.  A message is handed to an
\* agent's on_message only while its loop waits with no handler left to
\* run; while the agent is inside on_message its message stays the same
\* and its handler only moves along its own steps; and the loop leaves
\* on_message only when the handler has nothing left to run.
C20_NoInterleavingWithinAgent ==
    /\ [][\A a \in Registry :
             handled'[a] # handled[a] =>
                /\ loop[a] = "IDLE"
                /\ plan[a].body = <<>>
                /\ loop'[a] = "RUNNING"
                /\ Len(handled'[a]) = Len(handled[a]) + 1]_vars
    /\ [][\A a \in Registry :
             loop[a] = "RUNNING" =>
                /\ cur'[a] = cur[a]
                /\ \/ plan'[a] = plan[a]
                   \/ /\ plan[a].body # <<>>
                      /\ plan'[a] \in {Advance(plan[a]), Raise(plan[a])}
                   \/ plan[a].body = <<>> /\ loop'[a] # "RUNNING"
                /\ loop'[a] # "RUNNING" => plan[a].body = <<>>]_vars

\* two agents are inside on_message at the same time; one of them still
\* has steps to run while its next message waits in its inbox
C20_Witness ==
    \E a, b \in Registry :
        /\ a # b
        /\ loop[a] = "RUNNING"
        /\ plan[a].body # <<>>
        /\ inbox[a] # <<>>
        /\ loop[b] = "RUNNING"

\* the transitions of a dispatch loop's lifecycle
LifecycleSteps ==
    {<<"CREATED", "STARTED">>, <<"STARTED", "IDLE">>, <<"STARTED", "RUNNING">>,
     <<"IDLE", "RUNNING">>, <<"RUNNING", "IDLE">>, <<"IDLE", "STOPPING">>,
     <<"RUNNING", "STOPPING">>, <<"STOPPING", "STOPPED">>}

\* the lifecycle without what it says of IDLE: only the lifecycle's
\* transitions occur, STOPPED is never left, a loop is RUNNING exactly
\* from taking an inbox item until its handling has ended, and once
\* stop_all_agents was called no item is taken from any inbox
LifecycleOrder ==
    /\ [][\A a \in Registry :
             /\ loop'[a] # loop[a] => <<loop[a], loop'[a]>> \in LifecycleSteps
             /\ loop[a] = "STOPPED" => loop'[a] = "STOPPED"
             /\ (loop[a] # "RUNNING" /\ loop'[a] = "RUNNING")
                   <=> handled'[a] # handled[a]
             /\ handled'[a] # handled[a] =>
                   /\ inbox[a] # <<>>
                   /\ cur'[a] = Head(inbox[a])
                   /\ inbox'[a] = Tail(inbox[a])
             /\ app # "running" =>
                   /\ handled'[a] = handled[a]
                   /\ cur'[a] = cur[a]
                   /\ IsPrefix(inbox[a], inbox'[a])]_vars
    /\ [](\A a \in Registry :
             /\ loop[a] = "RUNNING" =>
                   /\ cur[a] # NoMsg
                   /\ handled[a] # <<>>
                   /\ handled[a][Len(handled[a])] = cur[a].id
             /\ app = "stopping" => loop[a] \in {"RUNNING", "STOPPING"}
             /\ app = "stopped" => loop[a] = "STOPPED"
             /\ loop[a] \in {"STOPPING", "STOPPED"} => app # "running")

TimedOutAndHandled(c) ==
    /\ cpc[c] = "done"
    /\ cresp[c].status = "timeout"
    /\ cmsg[c] # NoId
    /\ cur[CLIENT_ENGAGEMENT].id = cmsg[c]
    /\ loop[CLIENT_ENGAGEMENT] # "RUNNING"

\* C22: a bridge timeout does not affect the background workflow.  The
\* step at which a caller's get times out changes nothing of any agent
\* (inboxes, handlers, loops, response queue); and when the entry agent
\* has finished the intake of a caller whose get timed out, the handler
\* ran to its end, put its response and forwarded one REQUEST to the site
\* intelligence agent, which has received it.
C22_TimeoutLeavesWorkflow ==
    /\ [][\A c \in Callers :
             cresp'[c] # cresp[c] /\ cresp'[c].status = "timeout" =>
                /\ inbox' = inbox
                /\ plan' = plan
                /\ cur' = cur
                /\ loop' = loop
                /\ response_queue' = response_queue
                /\ sent' = sent
                /\ delivered' = delivered]_vars
    /\ [](\A c \in Callers :
             TimedOutAndHandled(c) =>
                /\ plan[CLIENT_ENGAGEMENT].body = <<>>
                /\ puts[CLIENT_ENGAGEMENT] # <<>>
                /\ ReceivedOne(CLIENT_ENGAGEMENT, SITE_INTELLIGENCE, "REQUEST"))

\* the acknowledgments on the bridge, and the REQUESTs of the entry agent
\* that were enqueued on the site intelligence agent's inbox
Acknowledgments ==
    {j \in 1..Len(response_queue[CLIENT_ENGAGEMENT]) :
        response_queue[CLIENT_ENGAGEMENT][j].status = "processing_initiated"}

ForwardedIntakes ==
    {i \in 1..Len(delivered[SITE_INTELLIGENCE]) :
        delivered[SITE_INTELLIGENCE][i][1] = CLIENT_ENGAGEMENT}

\* C23: acknowledge before forwarding.  At the step at which the entry
\* agent's REQUEST is enqueued for the site intelligence agent, the
\* acknowledgment of the intake being handled is already on the bridge;
\* so in every state each REQUEST of an intake that the site intelligence
\* agent holds or has handled has its acknowledgment put: with no get on
\* the bridge, there are at least as many acknowledgments, of different
\* intakes, as forwarded REQUESTs.
C23_AckBeforeForward ==
    /\ [][sent'[CLIENT_ENGAGEMENT] # sent[CLIENT_ENGAGEMENT]
            /\ delivered'[SITE_INTELLIGENCE] # delivered[SITE_INTELLIGENCE]
            => /\ puts[CLIENT_ENGAGEMENT] = <<"processing_initiated">>
               /\ \E j \in Acknowledgments :
                     response_queue[CLIENT_ENGAGEMENT][j] =
                        ApiResponse(CLIENT_ENGAGEMENT, "processing_initiated",
                                    cur[CLIENT_ENGAGEMENT])]_vars
    /\ [](/\ Cardinality(ForwardedIntakes) <= Cardinality(Acknowledgments)
          /\ \A j, k \in Acknowledgments :
                j # k => response_queue[CLIENT_ENGAGEMENT][j].req #
                         response_queue[CLIENT_ENGAGEMENT][k].req)

\* the site intelligence agent has handled the REQUEST of the second of
\* two intakes, both acknowledged
C23_Witness ==
    /\ Cardinality(ForwardedIntakes) = 2
    /\ Cardinality(Acknowledgments) = 2
    /\ handled[SITE_INTELLIGENCE] # <<>>
    /\ cur[SITE_INTELLIGENCE].sender_id = CLIENT_ENGAGEMENT

\* the agents of the workflow behind the entry agent
WorkflowStages == Registry \ (LeafAgents \cup {CLIENT_ENGAGEMENT})

\* agent b has left on_message, the message was a REQUEST for a task it
\* recognises and the work raised: the exception left on_message, or
\* control went to the handler's except clause
WorkFailed(b) ==
    /\ StageHandled(b)
    /\ \/ plan[b].branch = "failed"
       \/ on_message(b, cur[b]).try /\ ~plan[b].try

\* C24: a failing stage reports the failure.  For every workflow stage
\* agent, when the work for its recognised task has failed with an
\* exception, the agent has sent exactly one message, a RESULT with
\* status error and itself as sender to the client engagement agent, and
\* no REQUEST.
C24_FailureReported ==
    \A b \in WorkflowStages :
        WorkFailed(b) =>
            /\ Len(sent[b]) = 1
            /\ sent[b][1].type = "RESULT"
            /\ sent[b][1].status = "error"
            /\ sent[b][1].sender_id = b
            /\ sent[b][1].receiver_id = CLIENT_ENGAGEMENT
            /\ Occurrences(delivered[CLIENT_ENGAGEMENT], sent[b][1].id) = 1

\* agent a takes a step of its dispatch loop or of its on_message
Acts(a) ==
    \/ plan'[a] # plan[a]
    \/ handled'[a] # handled[a]
    \/ loop'[a] # loop[a]

\* C25: side effects only through delivery.  A step of an agent's
\* on_message changes, of the other agents, nothing but their inboxes,
\* and those only by appending at the tail the messages it sends: their
\* contexts, response queues, handlers and loops stay as they are.  Every
\* inbox only grows at its tail, or loses its head to its own agent's
\* loop; a response queue changes only by its own agent's put.
C25_SideEffectsOnlyThroughDelivery ==
    /\ [][\A a \in Registry :
             Acts(a) =>
                /\ \A b \in Registry \ {a} :
                      /\ context'[b] = context[b]
                      /\ response_queue'[b] = response_queue[b]
                      /\ puts'[b] = puts[b]
                      /\ cur'[b] = cur[b]
                      /\ plan'[b] = plan[b]
                      /\ loop'[b] = loop[b]
                      /\ IsPrefix(inbox[b], inbox'[b])
                      /\ \A i \in Len(inbox[b]) + 1 .. Len(inbox'[b]) :
                            /\ inbox'[b][i].sender_id = a
                            /\ inbox'[b][i].receiver_id = b
                            /\ \E k \in 1..Len(sent'[a]) :
                                  sent'[a][k] = inbox'[b][i]
                /\ registered' = registered
                /\ response_queue'[a] # response_queue[a] =>
                      /\ Len(response_queue'[a]) = Len(response_queue[a]) + 1
                      /\ IsPrefix(response_queue[a], response_queue'[a])]_vars
    /\ [][\A b \in Registry :
             \/ IsPrefix(inbox[b], inbox'[b])
             \/ handled'[b] # handled[b] /\ inbox'[b] = Tail(inbox[b])]_vars

\* an agent inside on_message has sent a message that now waits at the
\* tail of another agent's inbox, behind a message that was there before
C25_Witness ==
    \E a, b \in Registry :
        /\ a # b
        /\ loop[a] = "RUNNING"
        /\ sent[a] # <<>>
        /\ Len(inbox[b]) >= 2
        /\ inbox[b][Len(inbox[b])] = sent[a][Len(sent[a])]
        /\ inbox[b][1].sender_id # a

\* the REQUESTs agent a has sent in its current or last turn
RequestsSent(a) == {k \in 1..Len(sent[a]) : sent[a][k].type = "REQUEST"}

\* the REQUESTs waiting in the inboxes, as <<agent, position>>
WaitingRequests ==
    UNION {{<<b, i>> : i \in {j \in 1..Len(inbox[b]) :
                                 inbox[b][j].type = "REQUEST"}} :
           b \in Registry}

\* agent a is inside on_message and still has a REQUEST to send
StillToForward(a) ==
    /\ loop[a] = "RUNNING"
    /\ \E k \in 1..Len(plan[a].body) : plan[a].body[k].op = "task"

\* C26: no fan-out.  For every agent, handling one message emits at most
\* one REQUEST; and in the workflow of a single submitted message at most
\* one hop is active: at most one REQUEST waits in the inboxes, and while
\* one waits no handler has still a REQUEST to send, and at most one
\* handler at a time has one to send.
C26_NoFanOut ==
    /\ \A a \in Registry : Cardinality(RequestsSent(a)) <= 1
    /\ injected = 1 =>
          /\ Cardinality(WaitingRequests) <= 1
          /\ Cardinality({a \in Registry : StillToForward(a)}) <= 1
          /\ WaitingRequests # {} => \A a \in Registry : ~StillToForward(a)

\* in the workflow of one submitted message two agents in a row have each
\* forwarded a REQUEST, and the second one's REQUEST waits in an inbox
C26_Witness ==
    /\ injected = 1
    /\ Cardinality(WaitingRequests) = 1
    /\ \E a, b \in Registry :
          /\ a # b
          /\ RequestsSent(a) # {}
          /\ RequestsSent(b) # {}
          /\ cur[b].id = sent[a][Len(sent[a])].id

\* C27: response pairing.  The response a caller of handle_client_inquiry
\* has obtained from the bridge, unless it is the timeout result, was put
\* by the entry agent while handling the REQUEST that this caller
\* submitted.
C27_ResponsePairing ==
    \A c \in Callers :
        /\ cpc[c] = "done"
        /\ cresp[c] # NoResp
        /\ cresp[c].status # "timeout"
        => /\ cmsg[c] # NoId
           /\ cresp[c].req = cmsg[c]
           /\ cresp[c].agent = CLIENT_ENGAGEMENT

\* C28: after startup the endpoint sees the populated mapping.  For every
\* call of handle_client_inquiry made after lifespan startup, the mapping
\* main's name adk_agents denotes is the one initialize_adk_system
\* populated, with the client engagement agent in it, and the call is not
\* answered 503 but goes on to submit the inquiry and wait on the bridge.
C28_EndpointSeesAgents ==
    \A c \in Callers :
        cpc[c] # "idle" =>
            /\ main_adk_agents = DOMAIN registered
            /\ CLIENT_ENGAGEMENT \in main_adk_agents
            /\ cout[c] # "503"
            /\ GuardOutcome(adk_resolver, main_adk_agents) = "pass"

\* C29: a RESULT coming back to the client engagement agent is handled by
\* its RESULT branch.  When the message of the agent's current or last
\* turn is a RESULT addressed to it, on_message took the RESULT branch,
\* not the branch for unexpected messages, has nothing further to run, has
\* sent no message and has put nothing on the bridge.
C29_ResultAggregated ==
    /\ cur[CLIENT_ENGAGEMENT].type = "RESULT"
    /\ cur[CLIENT_ENGAGEMENT].receiver_id = CLIENT_ENGAGEMENT
    => /\ plan[CLIENT_ENGAGEMENT].branch = "result"
       /\ plan[CLIENT_ENGAGEMENT].body = <<>>
       /\ sent[CLIENT_ENGAGEMENT] = <<>>
       /\ puts[CLIENT_ENGAGEMENT] = <<>>

\* the entry agent has left on_message, the message was an intake that
\* carries the endpoint's original_sender_id, and a REQUEST was forwarded
ForwardedEndpointIntake ==
    /\ IntakeHandled
    /\ cur[CLIENT_ENGAGEMENT].original_sender_id = FASTAPI_ENDPOINT
    /\ RequestsSent(CLIENT_ENGAGEMENT) # {}

\* C30: the original source of an inquiry is tracked through the
\* workflow.  The REQUEST the entry agent forwards for an intake that
\* carries original_sender_id "fastapi_client_inquiry_endpoint" carries
\* that original_sender_id, and every REQUEST a later stage sends carries
\* the original_sender_id of the REQUEST that stage handled.
C30_OriginTracked ==
    /\ ForwardedEndpointIntake =>
          \A k \in RequestsSent(CLIENT_ENGAGEMENT) :
              sent[CLIENT_ENGAGEMENT][k].original_sender_id = FASTAPI_ENDPOINT
    /\ \A b \in WorkflowStages :
          cur[b].type = "REQUEST" =>
              \A k \in RequestsSent(b) :
                  sent[b][k].original_sender_id = cur[b].original_sender_id

\* the stage agents that forward a REQUEST
DownstreamStages == WorkflowStages \ {HUMAN_COLLABORATION}

\* the REQUESTs of stage agents that are being or were last handled, or
\* wait in an inbox, as the original_sender_id they carry
StageRequestOrigins ==
    {cur[b].original_sender_id :
        b \in {x \in WorkflowStages : IsRequestForMe(x, cur[x])}}
    \cup
    UNION {{inbox[b][i].original_sender_id :
               i \in {j \in 1..Len(inbox[b]) : inbox[b][j].type = "REQUEST"}} :
           b \in WorkflowStages}

\* C31: the trace anchor is preserved hop to hop.  Every REQUEST a
\* downstream stage agent has sent carries the original_sender_id of the
\* REQUEST the agent was handling; the REQUESTs of the workflow of one
\* submitted message that reached stage agents all carry one value; and a
\* missing or empty original_sender_id handed to send_task_message gives
\* a REQUEST without one.
C31_TraceAnchorPreserved ==
    /\ \A b \in DownstreamStages :
          IsRequestForMe(b, cur[b]) =>
              \A k \in RequestsSent(b) :
                  /\ sent[b][k].original_sender_id = cur[b].original_sender_id
                  /\ sent[b][k].sender_id = b
    /\ injected = 1 => Cardinality(StageRequestOrigins) <= 1
    /\ \A b \in DownstreamStages :
          loop[b] = "RUNNING" =>
              \A o \in {NONE, ""} :
                  LET msgs == send_task_message(context[b], NewId(b), b,
                                                CLIENT_ENGAGEMENT, T_UNKNOWN,
                                                "stage", o)
                  IN Len(msgs) = 1 /\ msgs[1].original_sender_id = NONE

\* three stage agents in a row have handled REQUESTs of one workflow that
\* carry the endpoint's original_sender_id, and the last has forwarded
C31_Witness ==
    /\ injected = 1
    /\ StageRequestOrigins = {FASTAPI_ENDPOINT}
    /\ \E a, b, c \in DownstreamStages :
          /\ a # b /\ b # c /\ a # c
          /\ sent[a] # <<>> /\ sent[b] # <<>>
          /\ cur[b].id = sent[a][Len(sent[a])].id
          /\ cur[c].id = sent[b][Len(sent[b])].id
          /\ RequestsSent(c) # {}

\* the entry agent has finished on_message for the first message it took,
\* an intake, and has put no acknowledgment
IntakeEndedUnacknowledged ==
    /\ Len(handled[CLIENT_ENGAGEMENT]) = 1
    /\ IsRequestForMe(CLIENT_ENGAGEMENT, cur[CLIENT_ENGAGEMENT])
    /\ cur[CLIENT_ENGAGEMENT].task = T_INTAKE
    /\ \/ loop[CLIENT_ENGAGEMENT] # "RUNNING"
       \/ plan[CLIENT_ENGAGEMENT].body = <<>>
    /\ \A k \in 1..Len(puts[CLIENT_ENGAGEMENT]) :
          puts[CLIENT_ENGAGEMENT][k] # "processing_initiated"

TryStages == {SITE_INTELLIGENCE, ARCHITECTURAL_DESIGN, DIGITAL_TWIN}

\* agent b has sent its RESULT to the client engagement agent and the next
\* step of on_message is the forward to the next stage
AboutToForward(b) ==
    /\ loop[b] = "RUNNING"
    /\ IsRequestForMe(b, cur[b])
    /\ cur[b].task \in RecognisedTasks(b)
    /\ plan[b].body # <<>>
    /\ Head(plan[b].body).op = "task"
    /\ SentTo(b, CLIENT_ENGAGEMENT) # <<>>

\* the steps that send a RESULT among the steps q
ResultSteps(q) == {k \in 1..Len(q) : q[k].op = "result"}

\* in every run the stage's handling of a recognised REQUEST has sent one
\* RESULT to the client engagement agent, the success or the error report
OneReportSent(b) ==
    StageHandled(b) =>
        /\ Len(SentTo(b, CLIENT_ENGAGEMENT)) = 1
        /\ SentTo(b, CLIENT_ENGAGEMENT)[1].type = "RESULT"
        /\ SentTo(b, CLIENT_ENGAGEMENT)[1].task_id \in
              {StageTaskId(b), StageFailedId(b)}

\* C35: one report per stage request.  When the site intelligence,
\* architectural design or digital twin agent has handled a recognised
\* stage REQUEST it has sent exactly one RESULT to the client engagement
\* agent, the success or the error report; and when the success report
\* is sent and the forward is next, an exception at the forward leaves no
\* RESULT to be sent.
C35_OneReportPerRequest ==
    \A b \in TryStages :
        /\ OneReportSent(b)
        /\ AboutToForward(b) => ResultSteps(Raise(plan[b]).body) = {}

\* nothing is left to do: every inbox is empty and every loop waits
Quiescent ==
    \A a \in Registry : inbox[a] = <<>> /\ loop[a] = "IDLE"

\* the message a workflow run starts from is an intake REQUEST addressed to
\* the entry agent (a predicate of the first state of a run)
IntakeInjected ==
    /\ inbox[CLIENT_ENGAGEMENT] # <<>>
    /\ IsRequestForMe(CLIENT_ENGAGEMENT, Head(inbox[CLIENT_ENGAGEMENT]))
    /\ Head(inbox[CLIENT_ENGAGEMENT]).task = T_INTAKE

\* no handler is seen failing: none has raised out of on_message, put an
\* error response or sent an error RESULT in its current or last turn
NoFailureVisible ==
    \A a \in Registry :
        /\ plan[a].branch # "failed"
        /\ \A k \in 1..Len(puts[a]) : puts[a][k] # "error"
        /\ \A k \in 1..Len(sent[a]) : sent[a][k].status # "error"

\* the number of messages delivered to the agents of S
RECURSIVE DeliveredTo(_)
DeliveredTo(S) ==
    IF S = {} THEN 0
    ELSE LET a == CHOOSE x \in S : TRUE
         IN Len(delivered[a]) + DeliveredTo(S \ {a})

\* every message an agent has sent is a RESULT if it is addressed to the
\* client engagement agent and a REQUEST otherwise
SentTyped ==
    \A a \in Registry : \A k \in 1..Len(inbox[a]) :
        inbox[a][k].id[1] # ENV =>
            /\ inbox[a][k].type \in {"REQUEST", "RESULT"}
            /\ inbox[a][k].type = "RESULT" <=> a = CLIENT_ENGAGEMENT

\* besides the intake, 8 messages were delivered to the client engagement
\* agent and 9 to the other agents, and none was dropped
WorkflowCounts ==
    /\ Len(delivered[CLIENT_ENGAGEMENT]) = 1 + 8
    /\ DeliveredTo(Registry \ {CLIENT_ENGAGEMENT}) = 9
    /\ dropped = {}

\* C33: workflow termination.  From any single message in any agent's
\* inbox the system comes to rest, all inboxes empty and all loops idle,
\* after at most 18 calls of on_message; and a run from an intake in which
\* no handler fails ends with exactly 9 further REQUESTs and exactly 8
\* RESULTs delivered, every RESULT to the client engagement agent and
\* every REQUEST to another agent.
C33_WorkflowTermination ==
    /\ <>[]Quiescent
    /\ [](turns <= 18)
    /\ []SentTyped
    /\ (IntakeInjected /\ []NoFailureVisible) =>
           <>[](Quiescent /\ WorkflowCounts)

\* a workflow from an intake has come to rest with all its messages
\* handled, the last of them the RESULT of the presentation stage
C33_Witness ==
    /\ Quiescent
    /\ WorkflowCounts
    /\ turns = 18
    /\ Len(handled[CLIENT_ENGAGEMENT]) = 9
    /\ cur[CLIENT_ENGAGEMENT].task_id = "master_plan_presented_for_approval"

\* a generative-model call is seen to have failed a handler: the entry
\* agent put an error response without an acknowledgment, or a stage with
\* a try block sent its failure RESULT
CollaboratorFailureVisible ==
    \/ puts[CLIENT_ENGAGEMENT] = <<"error">>
    \/ \E b \in TryStages : \E k \in 1..Len(sent[b]) :
          sent[b][k].status = "error"

\* the stages of the workflow in the order of the chain, the project
\* management agent at its two phases
WorkflowOrder ==
    <<SITE_INTELLIGENCE, ARCHITECTURAL_DESIGN, SYSTEMS_ENGINEERING,
      EXPERIENTIAL_DESIGN, DIGITAL_TWIN, PROJECT_MANAGEMENT,
      COST_SUPPLY_CHAIN, PROJECT_MANAGEMENT, HUMAN_COLLABORATION>>

\* the task of the k-th stage
WorkflowTask ==
    <<T_SITE, T_ARCH, T_SYS, T_EXP, T_TWIN, T_PLAN, T_COST, T_MASTER,
      T_PRESENT>>

\* the agent that sends the k-th stage its REQUEST
WorkflowSender(k) ==
    IF k = 1 THEN CLIENT_ENGAGEMENT ELSE WorkflowOrder[k - 1]

\* how many REQUESTs the agent of the k-th stage has taken when it has
\* taken the one of that stage
TakenAt(k) == IF k = 8 THEN 2 ELSE 1

\* the k-th stage has been handed its REQUEST
StageReached(k) == Len(handled[WorkflowOrder[k]]) >= TakenAt(k)

\* the run started from a message in the entry agent's inbox
StartedAtEntry ==
    /\ delivered[CLIENT_ENGAGEMENT] # <<>>
    /\ delivered[CLIENT_ENGAGEMENT][1] = <<ENV, 1>>

\* the RESULT of the presentation stage has been delivered to the client
\* engagement agent
PresentationDelivered ==
    \/ cur[CLIENT_ENGAGEMENT].task_id = "master_plan_presented_for_approval"
    \/ \E k \in 1..Len(inbox[CLIENT_ENGAGEMENT]) :
          inbox[CLIENT_ENGAGEMENT][k].task_id =
              "master_plan_presented_for_approval"

\* in a run from the entry agent the stages take their REQUESTs in the
\* order of the chain, each the REQUEST of its task, sent by the stage
\* before it and already emitted
StagesInOrder ==
    StartedAtEntry =>
        \A k \in 1..Len(WorkflowOrder) :
            StageReached(k) =>
                /\ k > 1 => StageReached(k - 1)
                /\ LET id == handled[WorkflowOrder[k]][TakenAt(k)]
                   IN /\ id[1] = WorkflowSender(k)
                      /\ id[2] <= seq[WorkflowSender(k)]
                /\ Len(handled[WorkflowOrder[k]]) = TakenAt(k) =>
                      cur[WorkflowOrder[k]].task = WorkflowTask[k]

\* C32: workflow progress.  Under fair scheduling, a run that starts from
\* an intake and in which no generative-model call fails a handler comes
\* to the presentation stage's RESULT being delivered to the client
\* engagement agent, every stage of the chain having been handed its
\* REQUEST; and the stages take their REQUESTs in the order of the chain,
\* none before the stage before it has emitted it.
C32_WorkflowProgress ==
    /\ (IntakeInjected /\ []~CollaboratorFailureVisible) =>
           <>(PresentationDelivered
              /\ \A k \in 1..Len(WorkflowOrder) : StageReached(k))
    /\ []StagesInOrder

\* the project management agent is not inside on_message and the message
\* it handled last was a REQUEST addressed to it for the task
PhaseHandled(task) ==
    /\ loop[PROJECT_MANAGEMENT] # "RUNNING"
    /\ IsRequestForMe(PROJECT_MANAGEMENT, cur[PROJECT_MANAGEMENT])
    /\ cur[PROJECT_MANAGEMENT].task = task

\* the first phase: one REQUEST to the cost and supply chain agent
PlanningPhaseSends ==
    PhaseHandled(T_PLAN) =>
        /\ Len(sent[PROJECT_MANAGEMENT]) = 1
        /\ sent[PROJECT_MANAGEMENT][1].type = "REQUEST"
        /\ sent[PROJECT_MANAGEMENT][1].receiver_id = COST_SUPPLY_CHAIN
        /\ sent[PROJECT_MANAGEMENT][1].task = T_COST

\* the second phase: the master_plan_drafted RESULT to the client
\* engagement agent, then one REQUEST to the human-AI collaboration agent
MasterPlanPhaseSends ==
    PhaseHandled(T_MASTER) =>
        /\ Len(sent[PROJECT_MANAGEMENT]) = 2
        /\ sent[PROJECT_MANAGEMENT][1].type = "RESULT"
        /\ sent[PROJECT_MANAGEMENT][1].receiver_id = CLIENT_ENGAGEMENT
        /\ sent[PROJECT_MANAGEMENT][1].task_id = "master_plan_drafted"
        /\ sent[PROJECT_MANAGEMENT][2].type = "REQUEST"
        /\ sent[PROJECT_MANAGEMENT][2].receiver_id = HUMAN_COLLABORATION
        /\ sent[PROJECT_MANAGEMENT][2].task = T_PRESENT

\* in a run from the entry agent the project management agent takes the
\* planning REQUEST first and the master plan REQUEST second, and no
\* third message
PhasesInOrder ==
    StartedAtEntry =>
        /\ Len(handled[PROJECT_MANAGEMENT]) <= 2
        /\ Len(handled[PROJECT_MANAGEMENT]) = 1 =>
              cur[PROJECT_MANAGEMENT].task = T_PLAN
        /\ Len(handled[PROJECT_MANAGEMENT]) = 2 =>
              cur[PROJECT_MANAGEMENT].task = T_MASTER

\* C34: project management is a two-phase orchestrator.  Having handled a
\* planning REQUEST it has sent one REQUEST to the cost and supply chain
\* agent and nothing else; having handled a master plan REQUEST it has
\* sent one master_plan_drafted RESULT to the client engagement agent and
\* one REQUEST to the human-AI collaboration agent and nothing else; in
\* the workflow of an intake the planning phase is handled first, the
\* master plan phase second, and, when no handler fails, both are handled.
C34_TwoPhaseOrchestrator ==
    /\ []PlanningPhaseSends
    /\ []MasterPlanPhaseSends
    /\ []PhasesInOrder
    /\ (IntakeInjected /\ []NoFailureVisible) =>
           <>[](Len(handled[PROJECT_MANAGEMENT]) = 2)

\* the model call of the request in progress or answered last failed
GenerationFailed == gen.outcome.kind \in {"incomplete", "raises"}

\* C37: the direct generation endpoints report failures.  When the model
\* call has failed (an incomplete response or an exception) the LLMApi
\* method has returned an error string, and the endpoint answers 500;
\* and an answer 200 carries the content of a generation that succeeded.
C37_GenerationFailuresReported ==
    /\ gen.pc \in {"returned", "answered"} /\ GenerationFailed =>
          startswith(gen.returned, ERROR_WORD)
    /\ gen.pc = "answered" /\ GenerationFailed => gen.status = "500"
    /\ gen.pc = "answered" /\ gen.status = "200" =>
          /\ gen.outcome.kind = "ok"
          /\ gen.body = gen.outcome.value

\* the steps of the lifespan
AppSteps ==
    {<<"created", "running">>, <<"created", "failed">>,
     <<"running", "stopping">>, <<"stopping", "stopped">>}

\* startup has returned: the resolver is bound, every agent of adk_agents
\* is registered, and on_start was called once on each
StartedOnce ==
    /\ adk_resolver # NONE
    /\ registered = initialize_adk_system.agents
    /\ \A a \in Registry : on_start_calls[a] = 1

\* C38: the process lifecycle.  The lifespan moves from created to
\* running or failed, from running to stopping and from stopping to
\* stopped, each once; agents are registered and started only in the
\* startup step, and while the application runs, stops or has stopped
\* every agent is registered and was started exactly once; after a
\* failed startup the application stays failed, no request is served,
\* stop_all_agents cannot be called and no loop hands a message to
\* on_message; and an agent that is or has been in on_message was started
\* before.
C38_ProcessLifecycle ==
    /\ [][app' # app => <<app, app'>> \in AppSteps]_vars
    /\ [][registered' # registered \/ on_start_calls' # on_start_calls =>
             app = "created" /\ app' # "created"]_vars
    /\ [](app \in {"running", "stopping", "stopped"} => StartedOnce)
    /\ [](\A a \in Registry : on_start_calls[a] <= 1)
    /\ [](app = "failed" =>
             /\ ~ENABLED StopAllAgents
             /\ \A c \in Callers : ~ENABLED InquiryCall(c)
             /\ \A a \in Registry :
                   /\ ~ENABLED LoopTake(a, LifespanTurns)
                   /\ handled[a] = <<>>
                   /\ loop[a] \in {"CREATED", "STARTED"})
    /\ [](\A a \in Registry :
             handled[a] # <<>> \/ loop[a] = "RUNNING" =>
                 app # "created" /\ on_start_calls[a] = 1)

\* start_all_agents failed after it had started some of the agents and
\* before it started the others
C38_Witness ==
    /\ app = "failed"
    /\ adk_resolver # NONE
    /\ \E a, b \in Registry :
          /\ on_start_calls[a] = 1 /\ loop[a] = "STARTED"
          /\ on_start_calls[b] = 0 /\ loop[b] = "CREATED"

=============================================================================
